---- MODULE Spec2Model ----
(***************************************************************************)
(* A model of dsharp_opac.py: the tabulated dielectric model (diel_const   *)
(* and its loaders), the effective-medium mixer (diel_mixed) and the       *)
(* size x wavelength sweep (get_mie_coefficients).                         *)
(*                                                                         *)
(* Numbers.  TLA+ has integers only.                                       *)
(*  - A wavelength is held by its place u on a logarithmic grid of 6       *)
(*    points per decade: lambda = 10^(u/6) in units of lambda0.  np.log10  *)
(*    of a wavelength is u, np.logspace is an even spacing in u, and       *)
(*    Lam(u) gives the wavelength itself in units of 1e-4 lambda0.         *)
(*  - n and k are small integers; log10 of a value <= 0 is not a number.   *)
(*  - Floats are taken as reals: rounding error is not modelled.           *)
(*  - A result of the Mie solver is held as the call that produced it.     *)
(***************************************************************************)
EXTENDS Integers, Sequences, FiniteSets, TLC

VARIABLES
    phase,      \* "new": no object yet; "diel": a diel_const object exists;
                \* "queried": and nk was called on it; "failed": the
                \* constructor raised
    self,       \* the diel_const object: its attributes
    call,       \* the last call made on the object and its arguments
    raised,     \* the exception the last call raised, "" when it returned
    ret,        \* what the last nk call returned
    extensions, \* how many extend calls were made (capped by MaxExt)
    ext_raised, \* whether some extend call raised
    \* get_mie_coefficients(A, LAM, diel_constants, extrapolate_large_grains):
    A,          \* the size grid, in units of lambda0
    LAM,        \* the wavelength grid
    extrapolate_large_grains,
    pc,         \* "idle", "opac", "call", "loop", "returned", "raised" or "done"
    ilam,       \* the wavelength loop's index
    ia,         \* the size loop's variable, which outlives the loop
    q_abs, q_sca, g_sca, s_1, s_2,     \* the result arrays, [size][wavelength]
    warned,     \* whether the cost warning was issued
    calls,      \* per wavelength, the size parameters bhmie_function was called with
    sweep_raised, \* the exception that ended the call, "" when none
    \* get_opacities(a, lam, rho_s, diel_const):
    entry,      \* the function the caller called: "get_mie_coefficients",
                \* "get_opacities", or "" when none
    opac_args,  \* the diel_const and rho_s arguments as the caller passed them
    rho_s,      \* get_opacities' local rho_s, in 0.01 g/cm^3
    package,    \* what get_opacities added to the package it returns
    \* diel_mixed:
    mixed,      \* the mixer object's attributes
    mix_pc,     \* "idle", "new", "ready", "queried", "normal" or "failed"
    mix_l,      \* the wavelength array of the mixer's nk call
    mix_ret,    \* what that call returned, element by element
    mix_raised, \* the exception the last mixer call raised, "" when none
    mix_findroot, \* "none", or how the call's findroot ended: "converged", "failed"
    normal,     \* the object get_normal_object returned
    normal_raised, \* the exception get_normal_object raised, "" when none
    \* the functions on arrays: get_kappa_from_q, get_size_averaged_opacity,
    \* powerlaw_N_of_a, gaussian_N_of_a, calculate_mueller_matrix
    agg_pc,     \* "idle", "new" or "done"
    agg_op,     \* the function that was called
    agg_in,     \* its arguments
    agg_out,    \* what it returned
    agg_raised  \* the exception it raised, "" when none

dielVars == <<phase, self, call, raised, ret, extensions, ext_raised>>
sweepVars == <<A, LAM, extrapolate_large_grains, pc, ilam, ia,
               q_abs, q_sca, g_sca, s_1, s_2, warned, calls,
               sweep_raised, entry, opac_args, rho_s, package>>
mixVars == <<mixed, mix_pc, mix_l, mix_ret, mix_raised, mix_findroot,
             normal, normal_raised>>
aggVars == <<agg_pc, agg_op, agg_in, agg_out, agg_raised>>
vars == <<dielVars, sweepVars, mixVars, aggVars>>

----------------------------------------------------------------------------
(* Bounds of the model *)

MaxExt == 1     \* extend calls per object
MaxNum == 3     \* largest num_points (keyword n) of an extend call
MaxSizes == 3   \* longest size grid
MaxWaves == 2   \* longest wavelength grid
MaxArr == 2     \* longest wavelength array of a mixer query
MaxConst == 2   \* most constituents of a mixer
MaxNodes == 3   \* nodes of get_normal_object's grid (200 in the source)
MaxGrid == 2    \* longest size grid and wavelength grid of the array functions

----------------------------------------------------------------------------
(* Values *)

None == 0 - 999     \* Python's None in a numeric attribute
NaN == 0 - 998      \* a float that is not a number (log10 of a value < 0)

Max2(a, b) == IF a >= b THEN a ELSE b
Min2(a, b) == IF a <= b THEN a ELSE b

StrictlyIncreasing(s) == \A i \in 1..(Len(s) - 1) : s[i] < s[i + 1]
RECURSIVE Pow(_, _)
Pow(b, e) == IF e <= 0 THEN 1 ELSE b * Pow(b, e - 1)

SeqMin(s) == CHOOSE x \in {s[i] : i \in DOMAIN s} : \A j \in DOMAIN s : x <= s[j]
SeqMax(s) == CHOOSE x \in {s[i] : i \in DOMAIN s} : \A j \in DOMAIN s : x >= s[j]

(* 10^(i/6) in thousandths, i = 0..5 *)
Frac10 == <<1000, 1468, 2154, 3162, 4642, 6813>>

(* The wavelength at grid place u, in units of 1e-4 lambda0 (u >= -6). *)
Lam(u) == Frac10[(u % 6) + 1] * Pow(10, (u \div 6) + 1)

(* np.logspace(log10(a), log10(b), num): num places evenly spaced from a    *)
(* to b, both included; num = 1 gives the start alone.                      *)
logspace(a, b, num) ==
    IF num <= 0 THEN <<>>
    ELSE IF num = 1 THEN <<a>>
    ELSE [i \in 1..num |-> a + ((i - 1) * (b - a)) \div (num - 1)]

(* [1:] forgotten: the anchor sample is kept. *)
Tail1_keep(s) == s

Tail1(s) == IF Len(s) = 0 THEN <<>> ELSE SubSeq(s, 2, Len(s))
Front1(s) == IF Len(s) = 0 THEN <<>> ELSE SubSeq(s, 1, Len(s) - 1)
Fill(num, v) == [i \in 1..num |-> v]

(* np.interp(x, xp, fp) over the wavelengths themselves: clamped outside    *)
(* [xp[0], xp[-1]], exact at a node, linear in between.  numpy documents    *)
(* the result for a non-increasing xp as meaningless; where no interval     *)
(* of xp holds x the model gives NaN.                                       *)
Bracket(x, xp) ==
    {j \in 1..(Len(xp) - 1) : xp[j] <= x /\ x < xp[j + 1]}

interp_lin(x, xp, fp) ==
    IF x < xp[1] THEN fp[1]
    ELSE IF x >= xp[Len(xp)] THEN fp[Len(xp)]
    ELSE IF Bracket(x, xp) = {} THEN NaN
    ELSE LET j == CHOOSE i \in Bracket(x, xp) : TRUE
         IN  IF x = xp[j] THEN fp[j]
             ELSE fp[j] + ((fp[j + 1] - fp[j]) * (Lam(x) - Lam(xp[j])))
                              \div (Lam(xp[j + 1]) - Lam(xp[j]))

(* The largest r with r^q <= p, for p >= 0 and q >= 1. *)
IRoot(q, p, hi) ==
    CHOOSE r \in 0..hi : Pow(r, q) <= p /\ (r = hi \/ Pow(r + 1, q) > p)

(* 10.**np.interp(log10(x), log10(xp), log10(fp)): in grid places log10 of  *)
(* the wavelength is the place itself, so the interpolation is geometric    *)
(* in fp.  log10 of a negative value is NaN and so is every result it       *)
(* enters; log10(0) is -inf, which np.interp carries to -inf, and 10**-inf  *)
(* is 0.  At a node numpy returns fp[j] itself, and 10**log10(fp[j]) is     *)
(* fp[j] for fp[j] >= 0 and NaN for fp[j] < 0.                              *)
Exp10Log10(v) == IF v < 0 THEN NaN ELSE v

interp_log(x, xp, fp) ==
    IF x < xp[1] THEN Exp10Log10(fp[1])
    ELSE IF x >= xp[Len(xp)] THEN Exp10Log10(fp[Len(xp)])
    ELSE IF Bracket(x, xp) = {} THEN NaN
    ELSE LET j == CHOOSE i \in Bracket(x, xp) : TRUE
             q == xp[j + 1] - xp[j]
             p == x - xp[j]
         IN  IF x = xp[j] THEN Exp10Log10(fp[j])
             ELSE IF fp[j] = fp[j + 1] /\ fp[j] >= 0 THEN fp[j]
             ELSE IF fp[j] < 0 \/ fp[j + 1] < 0 THEN NaN
             ELSE IF fp[j] = 0 \/ fp[j + 1] = 0 THEN 0
             ELSE IRoot(q, Pow(fp[j], q - p) * Pow(fp[j + 1], p),
                        Max2(fp[j], fp[j + 1]))

----------------------------------------------------------------------------
(* diel_const *)

(* The class attributes before __init__ has run. *)
diel_const_class ==
    [_l |-> <<>>, _n |-> <<>>, _k |-> <<>>, _lmin |-> None, _lmax |-> None,
     extrapol |-> FALSE, _has_negative_n |-> FALSE, material_str |-> "None"]

(* 1e-10 * lam, the half width of the table built around a scalar           *)
(* wavelength, at the resolution of the grid.                               *)
h == 1

(* diel_const.__init__(lam, n, k) with arrays: nothing is validated. *)
diel_const_init(lam, n, k) ==
    [diel_const_class EXCEPT
        !._l = lam, !._n = n, !._k = k,
        !._lmin = lam[1], !._lmax = lam[Len(lam)],
        !._has_negative_n = \E i \in DOMAIN n : n[i] <= 0]

(* diel_const.__init__(lam, n, k) with a scalar lam. *)
diel_const_init_scalar(lam, n, k) ==
    diel_const_init(<<lam - h, lam + h>>, <<n, n>>, <<k, k>>)

(* diel_from_lnk_file.__init__: the table is the file's three columns. *)
diel_from_lnk_file_init(lam, n, k) ==
    [diel_const_class EXCEPT
        !._l = lam, !._n = n, !._k = k,
        !._lmin = SeqMin(lam), !._lmax = SeqMax(lam),
        !._has_negative_n = \E i \in DOMAIN n : n[i] <= 0,
        !.material_str = "Optical constants from file"]

(* diel_henning.__init__: the table is the file's three columns; the flag   *)
(* _has_negative_n is not assigned and stays the class attribute.           *)
diel_henning_init(lam, n, k) ==
    [diel_const_class EXCEPT
        !._l = lam, !._n = n, !._k = k,
        !._lmin = SeqMin(lam), !._lmax = SeqMax(lam),
        !.material_str = "Species (Henning)"]

(* diel_vacuum: the class attributes _lmin = 0 and _lmax = 1e100, as a      *)
(* place below and a place above every wavelength of the grid; one sample   *)
(* n = 1, k = 0; _has_negative_n = True.                                    *)
VacuumLmin == 0 - 900
VacuumLmax == 600
diel_vacuum_init ==
    [_l |-> <<VacuumLmin>>, _n |-> <<1>>, _k |-> <<0>>,
     _lmin |-> VacuumLmin, _lmax |-> VacuumLmax,
     extrapol |-> FALSE, _has_negative_n |-> TRUE, material_str |-> "Vacuum"]

(* diel_vacuum.nk(l): ones and zeros, whatever the wavelength. *)
diel_vacuum_nk(l) == [raised |-> "", n |-> 1, k |-> 0]

(* The range check without its upper half. *)
nk_raises_lower_only(obj, l) == l < obj._lmin

(* diel_const.nk(l) for a scalar l. *)
nk_raises(obj, l) == l < obj._lmin \/ l > obj._lmax

(* log_interp stays True whatever the spectrum holds. *)
log_interp_always(obj, l) == TRUE

(* log_interp: False when the spectrum is flagged and the linear estimate   *)
(* of n at l is negative (NaN < 0 is False).                                *)
log_interp_of(obj, l) ==
    ~(/\ obj._has_negative_n
      /\ interp_lin(l, obj._l, obj._n) # NaN
      /\ interp_lin(l, obj._l, obj._n) < 0)

nk(obj, l) ==
    IF nk_raises(obj, l)
    THEN [raised |-> "NameError", n |-> None, k |-> None]
    ELSE LET log_interp == log_interp_of(obj, l)
         IN  [raised |-> "",
              n |-> IF log_interp THEN interp_log(l, obj._l, obj._n)
                                  ELSE interp_lin(l, obj._l, obj._n),
              k |-> interp_log(l, obj._l, obj._k)]

(* abs(self._l - lam).argmin(): the first index nearest to lam. *)
argmin_dist(l, lam) ==
    LET dist(i) == IF Lam(l[i]) >= Lam(lam) THEN Lam(l[i]) - Lam(lam)
                                            ELSE Lam(lam) - Lam(l[i])
    IN  CHOOSE i \in DOMAIN l :
            /\ \A j \in DOMAIN l : dist(i) <= dist(j)
            /\ \A j \in DOMAIN l : j < i => dist(j) > dist(i)

(* scipy's curve_fit(f, log10(x), log10(y), p0) with nparams parameters:    *)
(* ValueError when the data are empty or not finite (log10 of a value       *)
(* <= 0), TypeError when there are fewer points than parameters.            *)
curve_fit_raises(y, nparams) ==
    IF Len(y) = 0 \/ \E i \in DOMAIN y : y[i] <= 0 THEN "ValueError"
    ELSE IF Len(y) < nparams THEN "TypeError"
    ELSE ""

KnownKinds == {"constant", "second", "first", "linear"}
NParams(kind) == IF kind = "second" THEN 3 ELSE 2

(* The attribute update that ends both extend methods, up to the last       *)
(* statement, material_str += ' - extrapolated', which raises TypeError on  *)
(* a material_str of None after everything else was assigned.               *)
update_attributes(obj, l, n, k) ==
    LET o == [obj EXCEPT !._l = l, !._n = n, !._k = k,
                         !._lmin = SeqMin(l), !._lmax = SeqMax(l)]
    IN  IF obj.material_str = "None"
        THEN [obj |-> o, raised |-> "TypeError"]
        ELSE [obj |-> [o EXCEPT !.material_str = @ \o " - extrapolated"],
              raised |-> ""]

(* diel_const.extrapolate_constants_up(lmin, lmax, n, kind).  fit is the    *)
(* pair of values the fitted curves of n and k take on the new samples      *)
(* (10**f(...), so positive): the least-squares fit itself is not computed. *)
extrapolate_constants_up(obj, lmin, lmax, num, kind, fit) ==
    LET o1 == [obj EXCEPT !.extrapol = TRUE]
        last == Len(obj._l)
        l_ext == Tail1(logspace(obj._l[last], lmax, num))
        i_min == argmin_dist(obj._l, lmin)
        fit_n == curve_fit_raises(SubSeq(obj._n, i_min, last), NParams(kind))
        fit_k == curve_fit_raises(SubSeq(obj._k, i_min, last), NParams(kind))
        n_ext == IF kind = "constant" THEN Fill(Len(l_ext), obj._n[last])
                                      ELSE Fill(Len(l_ext), fit[1])
        k_ext == IF kind = "constant" THEN Fill(Len(l_ext), obj._k[last])
                                      ELSE Fill(Len(l_ext), fit[2])
    IN  IF kind \notin KnownKinds THEN [obj |-> o1, raised |-> "ValueError"]
        ELSE IF kind # "constant" /\ fit_n # "" THEN [obj |-> o1, raised |-> fit_n]
        ELSE IF kind # "constant" /\ fit_k # "" THEN [obj |-> o1, raised |-> fit_k]
        ELSE update_attributes(o1, obj._l \o l_ext, obj._n \o n_ext, obj._k \o k_ext)

(* diel_const.extrapolate_constants_down(lmin, lmax, n, kind). *)
extrapolate_constants_down(obj, lmin, lmax, num, kind, fit) ==
    LET o1 == [obj EXCEPT !.extrapol = TRUE]
        l_ext == Front1(logspace(lmin, obj._l[1], num))
        i_max == argmin_dist(obj._l, lmax)
        fit_n == curve_fit_raises(SubSeq(obj._n, 1, i_max - 1), NParams(kind))
        fit_k == curve_fit_raises(SubSeq(obj._k, 1, i_max - 1), NParams(kind))
        n_ext == IF kind = "constant" THEN Fill(Len(l_ext), obj._n[1])
                                      ELSE Fill(Len(l_ext), fit[1])
        k_ext == IF kind = "constant" THEN Fill(Len(l_ext), obj._k[1])
                                      ELSE Fill(Len(l_ext), fit[2])
    IN  IF kind \notin KnownKinds THEN [obj |-> o1, raised |-> "ValueError"]
        ELSE IF kind # "constant" /\ fit_n # "" THEN [obj |-> o1, raised |-> fit_n]
        ELSE IF kind # "constant" /\ fit_k # "" THEN [obj |-> o1, raised |-> fit_k]
        ELSE update_attributes(o1, l_ext \o obj._l, n_ext \o obj._n, k_ext \o obj._k)

----------------------------------------------------------------------------
(* Inputs *)

LamVals == {0, 12}              \* tabulated wavelengths: 1 and 100 lambda0
NKVals == {<<1, 1>>, <<2, 1>>, <<0 - 1, 1>>, <<1, 0>>}
RowVals == {<<u, m[1], m[2]>> : u \in LamVals, m \in NKVals}
TableVals == {<<r>> : r \in RowVals} \cup {<<r1, r2>> : r1 \in RowVals, r2 \in RowVals}
Col(t, c) == [i \in 1..Len(t) |-> t[i][c]]

QueryVals == {0 - 6, 0, 6, 12, 18}
AnchorVals == {0, 12}           \* where the fit starts
UpVals == {6, 18}               \* lmax of extrapolate_constants_up
DownVals == {0 - 6, 6}          \* lmin of extrapolate_constants_down
KindVals == {"constant", "second", "first", "third"}
FitVals == {<<1, 1>>, <<2, 1>>}

(* The arguments of an extend call that its kind reads: the anchor and the  *)
(* fit matter only to a fitted kind.                                        *)
Anchors(kind) == IF kind \in {"second", "first"} THEN AnchorVals ELSE {0}
Fits(kind) == IF kind \in {"second", "first"} THEN FitVals ELSE {<<1, 1>>}

NoCall == [op |-> "", l |-> None, lmin |-> None, lmax |-> None, num |-> 0, kind |-> ""]
NoRet == [n |-> None, k |-> None]

----------------------------------------------------------------------------
(* get_mie_coefficients *)

NMXX == 200000          \* after how many terms to use extrapolation
TwoPiMilli == 6283      \* 2 pi, in thousandths

(* The largest r in lo..hi with r*r <= v, and with r*r*r <= v, by bisection. *)
RECURSIVE SqrtIn(_, _, _)
SqrtIn(v, lo, hi) ==
    IF lo = hi THEN lo
    ELSE LET mid == (lo + hi + 1) \div 2
         IN  IF mid * mid <= v THEN SqrtIn(v, mid, hi) ELSE SqrtIn(v, lo, mid - 1)
RECURSIVE CbrtIn(_, _, _)
CbrtIn(v, lo, hi) ==
    IF lo = hi THEN lo
    ELSE LET mid == (lo + hi + 1) \div 2
         IN  IF mid * mid * mid <= v THEN CbrtIn(v, mid, hi) ELSE CbrtIn(v, lo, mid - 1)
ISqrt(v) == SqrtIn(v, 0, 511)
ICbrt(v) == CbrtIn(v, 0, 511)

(* X = 2 pi / lam * A for a size a in units of lambda0. *)
size_parameter(a, lam) == (TwoPiMilli * a) \div (Lam(lam) \div 10)

(* x + 4 x^(1/3) + 2 *)
Xstop(x) == x + ICbrt(64 * x) + 2

(* abs(n + k j), in hundredths *)
AbsM100(n, k) == ISqrt(10000 * (n * n + k * k))

(* nmx = np.maximum(Xstop, abs(X (n + k j))).astype(int) + 15 *)
nmx_of(x, n, k) == Max2(Xstop(x), (x * AbsM100(n, k)) \div 100) + 15

(* The mask without the override of line 1531. *)
mask_of_thresholded(x, n, k, extrapolate) == nmx_of(x, n, k) < NMXX

(* mask = nmx < NMXX, all True when extrapolate_large_grains is False *)
mask_of(x, n, k, extrapolate) ==
    IF extrapolate THEN nmx_of(x, n, k) < NMXX ELSE TRUE

(* X[mask]: the entries of X whose mask is True, in order, re-indexed. *)
RECURSIVE Compress(_, _)
Compress(X, mask) ==
    IF Len(X) = 0 THEN <<>>
    ELSE IF mask[1] THEN <<X[1]>> \o Compress(Tail(X), Tail(mask))
    ELSE Compress(Tail(X), Tail(mask))

(* fsolve(f, NMXX) with f(x) = x + 4 x^0.33333 + 2 - NMXX: the largest      *)
(* whole x at which f is not positive.                                      *)
RECURSIVE fsolve(_, _)
fsolve(lo, hi) ==
    IF lo = hi THEN lo
    ELSE LET mid == (lo + hi + 1) \div 2
         IN  IF mid + ICbrt(64 * mid) + 2 <= NMXX THEN fsolve(mid, hi)
             ELSE fsolve(lo, mid - 1)
x_max == fsolve(0, NMXX)

(* A slot of a result array holds where its value came from: the zeros the  *)
(* array was made of, a bhmie_function call, or Laor & Draine's formula.    *)
Zeros == [src |-> "zeros", x |-> 0, n |-> 0, k |-> 0]
bhmie_function(x, n, k) == [src |-> "bhmie", x |-> x, n |-> n, k |-> k]
laor_draine(x) == [src |-> "laor_draine", x |-> x, n |-> 0, k |-> 0]

(* The xmax of the warning, 2 pi / LAM.min() * A.max(), and its nmx. *)
warn_nmx(sizes, waves) == Xstop(size_parameter(SeqMax(sizes), SeqMin(waves))) + 15

(* X_cut with the threshold itself as the fallback size parameter. *)
X_cut_of_threshold(X, mask) ==
    IF Len(Compress(X, mask)) = 0 THEN <<NMXX>> ELSE Compress(X, mask)

(* X_cut of one wavelength: X[mask], or [x_max] when that is empty. *)
X_cut_of(X, mask) ==
    IF Len(Compress(X, mask)) = 0 THEN <<x_max>> ELSE Compress(X, mask)

(* The index with the one of the wavelength before kept where it is the     *)
(* smaller.                                                                 *)
loop_index_kept(prev, Xc) ==
    IF prev = None \/ prev > Len(Xc) THEN Len(Xc) ELSE prev

(* ia after 'for ia, x in enumerate(X_cut)': the index of the last entry,   *)
(* or the value ia had before when X_cut is empty and the body never runs.  *)
loop_index(prev, Xc) == IF Len(Xc) = 0 THEN prev ELSE Len(Xc)

(* The fill of g for the sizes past the loop, as the commented-out code     *)
(* had it: the last computed g.                                             *)
fill_g_last(X, Xc, i, n, k) == bhmie_function(Xc[Len(Xc)], n, k)

(* g_sca[ia + 1:, ilam] = 0.3 X^2 / (1 + 0.3 X^2) *)
fill_g(X, Xc, i, n, k) == laor_draine(X[i])

----------------------------------------------------------------------------
(* Inputs of the sweep *)

SizeVals == {100, 20000, 200000}
SweepLamVals == {0, 6, 18}
SweepTables ==
    { <<<<0, 1, 1>>, <<12, 1, 1>>>>,
      <<<<0, 2, 2>>, <<12, 2, 2>>>>,
      <<<<0, 2, 2>>, <<12, 1, 1>>>> }
SeqsUpTo(S, len) == UNION {[1..m -> S] : m \in 1..len}

NoArgs == [diel_const |-> <<>>, rho_s |-> None]
NoPackage == [rho_s |-> None, k_abs |-> <<>>, k_sca |-> <<>>, a |-> <<>>, lam |-> <<>>]

SweepIdle ==
    /\ A = <<>> /\ LAM = <<>> /\ extrapolate_large_grains = FALSE
    /\ pc = "idle" /\ ilam = 0 /\ ia = None
    /\ q_abs = <<>> /\ q_sca = <<>> /\ g_sca = <<>> /\ s_1 = <<>> /\ s_2 = <<>>
    /\ warned = FALSE /\ calls = <<>>
    /\ sweep_raised = "" /\ entry = "" /\ opac_args = NoArgs
    /\ rho_s = None /\ package = NoPackage

NoMixed == [constants |-> <<>>, abundances |-> <<>>, rule |-> "",
            material_str |-> "None", extrapol |-> FALSE]

NoNormal == [_l |-> <<>>, _nk |-> <<>>,
             _lmin |-> [u |-> None, ulp |-> 0], _lmax |-> [u |-> None, ulp |-> 0],
             material_str |-> "None", extrapol |-> FALSE]

AggIdle ==
    /\ agg_pc = "idle" /\ agg_op = "" /\ agg_in = <<>> /\ agg_out = <<>>
    /\ agg_raised = ""

MixIdle ==
    /\ mixed = NoMixed /\ mix_pc = "idle" /\ mix_l = <<>>
    /\ mix_ret = <<>> /\ mix_raised = "" /\ mix_findroot = "none"
    /\ normal = NoNormal /\ normal_raised = ""

ZeroArray == [i \in 1..Len(A) |-> [j \in 1..Len(LAM) |-> Zeros]]

(* The densities, in 0.01 g/cm^3, as given or not given to get_opacities. *)
RhoVals == {None, 167}

(* The check of get_opacities without its first half. *)
get_opacities_raises_missing_rho(d, r) == d # <<>> /\ r = None

(* get_opacities raises when exactly one of diel_const, rho_s is None. *)
get_opacities_raises(d, r) ==
    (d = <<>> /\ r # None) \/ (d # <<>> /\ r = None)

(* get_ricci_mix: volume fractions in percent, densities in 0.01 g/cm^3,    *)
(* rho_s = sum(densities * vol_fract).  The mix is held as the table of its *)
(* values over the domain its constituents share.                           *)
vol_fract == <<30, 7, 21, 42>>
densities == <<0, 350, 250, 100>>
RECURSIVE densities_sum(_)
densities_sum(i) ==
    IF i = 0 THEN 0 ELSE densities_sum(i - 1) + densities[i] * vol_fract[i]
RicciTable == <<<<0, 2, 1>>, <<12, 2, 1>>>>
get_ricci_mix(lmax) ==
    [diel_constants |->
        [diel_from_lnk_file_init(Col(RicciTable, 1), Col(RicciTable, 2),
                                 Col(RicciTable, 3))
            EXCEPT !.material_str = "Bruggeman-Mix of 4 species"],
     rho_s |-> densities_sum(Len(densities)) \div 100]

(* m = 4 pi / 3 rho_s a**3, one mass per size, held as the density and the  *)
(* size it is computed from.                                                *)
mass(rho, a) == [i \in 1..Len(a) |-> [rho_s |-> rho, a |-> a[i]]]

(* The opacity as the efficiency alone: the factor pi a^2 / m is left out. *)
get_kappa_from_q_unscaled(a, m, q) ==
    [i \in 1..Len(q) |-> [j \in 1..Len(q[i]) |->
        [q |-> q[i][j], a |-> 1, m |-> [rho_s |-> 1, a |-> 1]]]]

(* get_kappa_from_q: q * np.tile(pi a**2 / m, [n_lam, 1]).transpose(); an   *)
(* element is held as the efficiency, the size and the mass of the product  *)
(* q[i, j] * (pi a[i]**2 / m[i]).                                           *)
get_kappa_from_q(a, m, q) ==
    [i \in 1..Len(q) |-> [j \in 1..Len(q[i]) |->
        [q |-> q[i][j], a |-> a[i], m |-> m[i]]]]

(* The query of the sweep with the wavelength clamped into the domain. *)
diel_constants_nk_clamped(ph, obj, l) ==
    nk(obj, Max2(obj._lmin, Min2(obj._lmax, l)))

(* diel_constants.nk(lam) in the sweep: an attribute of None when no        *)
(* object was passed.                                                       *)
diel_constants_nk(ph, obj, l) ==
    IF ph = "new" THEN [raised |-> "AttributeError", n |-> None, k |-> None]
    ELSE nk(obj, l)

(* The arrays are made, the warning is decided. *)
SweepStart ==
    /\ pc = "call"
    /\ q_abs' = ZeroArray /\ q_sca' = ZeroArray /\ g_sca' = ZeroArray
    /\ s_1' = ZeroArray /\ s_2' = ZeroArray
    /\ warned' = (warn_nmx(A, LAM) > NMXX /\ ~extrapolate_large_grains)
    /\ ilam' = 1
    /\ pc' = "loop"
    /\ calls' = [j \in 1..Len(LAM) |-> <<>>]
    /\ UNCHANGED <<A, LAM, extrapolate_large_grains, ia,
                   sweep_raised, entry, opac_args, rho_s, package>>
    /\ UNCHANGED <<dielVars, mixVars, aggVars>>

(* One pass of the wavelength loop. *)
SweepWavelength ==
    /\ pc = "loop" /\ ilam <= Len(LAM)
    /\ \E m \in {diel_constants_nk(phase, self, LAM[ilam])} :
       IF m.raised # ""
       THEN /\ pc' = "raised"
            /\ sweep_raised' = m.raised
            /\ UNCHANGED <<ilam, ia, q_abs, q_sca, g_sca, s_1, s_2, calls>>
       ELSE /\ UNCHANGED sweep_raised
            /\ \E X \in {[i \in 1..Len(A) |-> size_parameter(A[i], LAM[ilam])]} :
               \E mask \in {[i \in 1..Len(A) |->
                               mask_of(X[i], m.n, m.k, extrapolate_large_grains)]} :
               \E X_cut \in {X_cut_of(X, mask)} :
               LET last == loop_index(ia, X_cut)
                   col(arr, f(_)) ==
                       [i \in 1..Len(A) |-> [arr[i] EXCEPT ![ilam] = f(i)]]
                   mie(i) == bhmie_function(X_cut[i], m.n, m.k)
                   new_q(i) == IF i <= last THEN mie(i) ELSE mie(last)
                   new_g(i) == IF i <= last THEN mie(i)
                               ELSE fill_g(X, X_cut, i, m.n, m.k)
                   new_s1(i) == IF i <= last THEN mie(i) ELSE s_1[i][ilam]
                   new_s2(i) == IF i <= last THEN mie(i) ELSE s_2[i][ilam]
               IN  /\ q_abs' = col(q_abs, new_q)
                   /\ q_sca' = col(q_sca, new_q)
                   /\ g_sca' = col(g_sca, new_g)
                   /\ s_1' = col(s_1, new_s1)
                   /\ s_2' = col(s_2, new_s2)
                   /\ calls' = [calls EXCEPT ![ilam] = X_cut]
                   /\ ia' = last
                   /\ ilam' = ilam + 1
                   /\ pc' = "loop"
    /\ UNCHANGED <<A, LAM, extrapolate_large_grains, warned,
                   entry, opac_args, rho_s, package>>
    /\ UNCHANGED <<dielVars, mixVars, aggVars>>

(* The result package of get_mie_coefficients is returned. *)
SweepReturn ==
    /\ pc = "loop" /\ ilam > Len(LAM)
    /\ pc' = "returned"
    /\ UNCHANGED <<A, LAM, extrapolate_large_grains, ilam, ia,
                   q_abs, q_sca, g_sca, s_1, s_2, warned, calls,
               sweep_raised, entry, opac_args, rho_s, package>>
    /\ UNCHANGED <<dielVars, mixVars, aggVars>>

(* get_opacities up to its call of get_mie_coefficients: the check of the  *)
(* two arguments, then the default mix when neither was given.              *)
GetOpacities ==
    /\ pc = "opac"
    /\ IF get_opacities_raises(opac_args.diel_const, opac_args.rho_s)
       THEN /\ pc' = "raised"
            /\ sweep_raised' = "AssertionError"
            /\ UNCHANGED <<phase, self, rho_s>>
       ELSE /\ pc' = "call"
            /\ UNCHANGED sweep_raised
            /\ IF opac_args.diel_const = <<>> /\ opac_args.rho_s = None
               THEN \E r \in {get_ricci_mix(LAM[Len(LAM)])} :
                       /\ phase' = "diel"
                       /\ self' = r.diel_constants
                       /\ rho_s' = r.rho_s
               ELSE UNCHANGED <<phase, self, rho_s>>
    /\ UNCHANGED <<A, LAM, extrapolate_large_grains, ilam, ia,
                   q_abs, q_sca, g_sca, s_1, s_2, warned, calls,
                   entry, opac_args, package>>
    /\ UNCHANGED <<call, raised, ret, extensions, ext_raised>>
    /\ UNCHANGED <<mixVars, aggVars>>

(* get_opacities after get_mie_coefficients returned: the opacities and the *)
(* density, sizes and wavelengths are added to the package.                 *)
OpacitiesReturn ==
    /\ pc = "returned" /\ entry = "get_opacities"
    /\ package' = [rho_s |-> rho_s,
                   k_abs |-> get_kappa_from_q(A, mass(rho_s, A), q_abs),
                   k_sca |-> get_kappa_from_q(A, mass(rho_s, A), q_sca),
                   a |-> A, lam |-> LAM]
    /\ pc' = "done"
    /\ UNCHANGED <<A, LAM, extrapolate_large_grains, ilam, ia,
                   q_abs, q_sca, g_sca, s_1, s_2, warned, calls,
                   sweep_raised, entry, opac_args, rho_s>>
    /\ UNCHANGED <<dielVars, mixVars, aggVars>>

InitSweep ==
    /\ \E t \in SweepTables :
       \E d \in {diel_from_lnk_file_init(Col(t, 1), Col(t, 2), Col(t, 3))} :
          \/ /\ entry = "get_mie_coefficients"
             /\ phase = "diel" /\ self = d
             /\ opac_args = NoArgs /\ rho_s = None
             /\ pc = "call"
          \/ /\ entry = "get_opacities"
             /\ phase = "diel" /\ self = d
             /\ opac_args \in [diel_const : {<<d>>}, rho_s : RhoVals]
             /\ rho_s = opac_args.rho_s
             /\ pc = "opac"
          \/ /\ entry = "get_opacities"
             /\ phase = "new" /\ self = diel_const_class
             /\ opac_args \in [diel_const : {<<>>}, rho_s : RhoVals]
             /\ rho_s = opac_args.rho_s
             /\ pc = "opac"
    /\ sweep_raised = "" /\ package = NoPackage
    /\ call = NoCall /\ raised = "" /\ ret = NoRet
    /\ extensions = 0 /\ ext_raised = FALSE
    /\ A \in SeqsUpTo(SizeVals, MaxSizes)
    /\ LAM \in SeqsUpTo(SweepLamVals, MaxWaves)
    /\ extrapolate_large_grains \in BOOLEAN
    /\ ilam = 0 /\ ia = None
    /\ q_abs = <<>> /\ q_sca = <<>> /\ g_sca = <<>> /\ s_1 = <<>> /\ s_2 = <<>>
    /\ warned = FALSE /\ calls = <<>>
    /\ MixIdle
    /\ AggIdle

NextSweep ==
    \/ GetOpacities
    \/ SweepStart
    \/ SweepWavelength
    \/ SweepReturn
    \/ OpacitiesReturn

SpecSweep == InitSweep /\ [][NextSweep]_vars

----------------------------------------------------------------------------
(* Properties of get_mie_coefficients *)

Swept(j) ==
    pc \in {"loop", "returned", "raised", "done"} /\ j \in 1..Len(LAM) /\ j < ilam
Xij(i, j) == size_parameter(A[i], LAM[j])
Nmax(i, j) == nmx_of(Xij(i, j), nk(self, LAM[j]).n, nk(self, LAM[j]).k)
Converges(i, j) == Nmax(i, j) < NMXX
Own(i, j) == bhmie_function(Xij(i, j), nk(self, LAM[j]).n, nk(self, LAM[j]).k)
Ascending(s) == \A i \in 1..Len(s) : \A i2 \in i..Len(s) : s[i] <= s[i2]
LastConverging(j) ==
    CHOOSE i \in 1..Len(A) :
        Converges(i, j) /\ \A i2 \in 1..Len(A) : Converges(i2, j) => i2 <= i

(* C2: with extrapolation enabled and an ascending size grid, at a          *)
(* wavelength where some but not all sizes converge, the solver is called   *)
(* for the sizes up to the largest converging one i* and for no other; each *)
(* size beyond i* has the Q_abs and Q_sca computed at i* and the g of the   *)
(* Laor & Draine formula at its own size parameter.                         *)
C2_ExtrapolatesBeyondLastConverging ==
    \A j \in 1..Len(LAM) :
        (/\ Swept(j) /\ extrapolate_large_grains /\ Ascending(A)
         /\ \E i \in 1..Len(A) : Converges(i, j)
         /\ \E i \in 1..Len(A) : ~Converges(i, j))
        => LET istar == LastConverging(j)
           IN  /\ calls[j] = [i \in 1..istar |-> Xij(i, j)]
               /\ \A i \in 1..istar : q_abs[i][j] = Own(i, j) /\ g_sca[i][j] = Own(i, j)
               /\ \A i \in (istar + 1)..Len(A) :
                     /\ q_abs[i][j] = Own(istar, j)
                     /\ q_sca[i][j] = Own(istar, j)
                     /\ g_sca[i][j] = laor_draine(Xij(i, j))

C2_Witness ==
    /\ pc = "returned" /\ extrapolate_large_grains
    /\ A = <<100, 20000, 200000>>
    /\ \E j \in 1..Len(LAM) :
          /\ Converges(1, j) /\ ~Converges(2, j) /\ ~Converges(3, j)
          /\ q_abs[3][j] = Own(1, j)
          /\ g_sca[3][j] = laor_draine(Xij(3, j))
          /\ calls[j] = <<Xij(1, j)>>

(* C3: with extrapolation enabled, whatever the order of the size grid,     *)
(* every size whose N_max is below the threshold holds its own Mie result   *)
(* (Q_abs, Q_sca, g, S1, S2) in its own slot.                               *)
C3_ConvergingSizeHoldsOwnResult ==
    \A j \in 1..Len(LAM) : \A i \in 1..Len(A) :
        (Swept(j) /\ extrapolate_large_grains /\ Converges(i, j))
        => /\ q_abs[i][j] = Own(i, j)
           /\ q_sca[i][j] = Own(i, j)
           /\ g_sca[i][j] = Own(i, j)
           /\ s_1[i][j] = Own(i, j)
           /\ s_2[i][j] = Own(i, j)

(* C4: with extrapolation enabled, at a wavelength where no size converges, *)
(* the solver is called exactly once, at the size parameter x on the        *)
(* boundary x + 4 x^(1/3) + 2 = threshold, and every size of that           *)
(* wavelength has that call's Q_abs and Q_sca.                              *)
C4_NoneConvergesOneBoundaryCall ==
    \A j \in 1..Len(LAM) :
        (/\ Swept(j) /\ extrapolate_large_grains
         /\ \A i \in 1..Len(A) : ~Converges(i, j))
        => /\ Len(calls[j]) = 1
           /\ Xstop(calls[j][1]) <= NMXX /\ Xstop(calls[j][1] + 1) > NMXX
           /\ \A i \in 1..Len(A) :
                 /\ q_abs[i][j].src = "bhmie" /\ q_abs[i][j].x = calls[j][1]
                 /\ q_sca[i][j].src = "bhmie" /\ q_sca[i][j].x = calls[j][1]
                 /\ q_abs[i][j].n = nk(self, LAM[j]).n
                 /\ q_abs[i][j].k = nk(self, LAM[j]).k

C4_Witness ==
    /\ pc = "returned" /\ extrapolate_large_grains
    /\ Len(A) = 3
    /\ \E j \in 1..Len(LAM) :
          /\ \A i \in 1..3 : ~Converges(i, j)
          /\ calls[j] = <<x_max>>
          /\ q_abs[3][j].x = x_max

(* C5: with extrapolation disabled the solver is called exactly once for    *)
(* every (size, wavelength) pair, whatever its N_max, and the pair's slots  *)
(* hold that call's results.                                                *)
C5_DisabledSolvesEveryPair ==
    \A j \in 1..Len(LAM) :
        (Swept(j) /\ ~extrapolate_large_grains)
        => /\ calls[j] = [i \in 1..Len(A) |-> Xij(i, j)]
           /\ \A i \in 1..Len(A) :
                 /\ q_abs[i][j] = Own(i, j)
                 /\ q_sca[i][j] = Own(i, j)
                 /\ g_sca[i][j] = Own(i, j)
                 /\ s_1[i][j] = Own(i, j)
                 /\ s_2[i][j] = Own(i, j)

C5_Witness ==
    /\ pc = "returned" /\ ~extrapolate_large_grains
    /\ Len(A) = 3 /\ Len(LAM) = 2
    /\ ~Converges(3, 2) /\ Converges(1, 2)
    /\ q_abs[3][2] = Own(3, 2)
    /\ Len(calls[1]) = 3 /\ Len(calls[2]) = 3

(* C6: with extrapolation disabled, a sweep in which some pair's N_max      *)
(* (the larger of x + 4 x^(1/3) + 2 and |x m|, plus 15) exceeds 2e5 has     *)
(* issued the cost warning.                                                 *)
C6_WarnsWhenNmaxExceeds ==
    (/\ pc \in {"loop", "returned", "raised", "done"} /\ ilam > 0
     /\ ~extrapolate_large_grains
     /\ \E j \in 1..Len(LAM) : \E i \in 1..Len(A) :
           nk(self, LAM[j]).raised = "" /\ Nmax(i, j) > NMXX)
    => warned

(* C18: get_opacities raises when exactly one of diel_const and rho_s is    *)
(* given, before any dielectric query and any call of the Mie solver; when  *)
(* both are given the sweep runs on the given model and the package holds   *)
(* the given density; when neither is given the sweep runs on the default   *)
(* Ricci-2010 mix and the package holds that mix's density.                 *)
C18_OneOfTwoArgumentsRaises ==
    (entry = "get_opacities" /\ pc # "opac")
    => LET d == opac_args.diel_const
           r == opac_args.rho_s
           default == get_ricci_mix(LAM[Len(LAM)])
       IN  /\ ((d = <<>>) # (r = None))
              => /\ pc = "raised" /\ sweep_raised = "AssertionError"
                 /\ ilam = 0 /\ calls = <<>> /\ q_abs = <<>>
           /\ (d # <<>> /\ r # None)
              => /\ sweep_raised # "AssertionError"
                 /\ phase = "diel" /\ self = d[1] /\ rho_s = r
                 /\ pc = "done" => package.rho_s = r
           /\ (d = <<>> /\ r = None)
              => /\ sweep_raised # "AssertionError"
                 /\ phase = "diel" /\ self = default.diel_constants
                 /\ rho_s = default.rho_s
                 /\ pc = "done" => package.rho_s = default.rho_s

(* C19: when some wavelength of the grid lies outside the dielectric model's *)
(* domain, get_mie_coefficients does not return a package: the sweep stops  *)
(* at the first such wavelength with the query's out-of-range error, with   *)
(* large-grain extrapolation enabled or not.                                *)
OutOfDomain(j) == LAM[j] < self._lmin \/ LAM[j] > self._lmax
C19_OutOfRangeSurfaces ==
    (/\ phase = "diel" /\ pc \notin {"opac", "call"}
     /\ sweep_raised # "AssertionError"
     /\ \E j \in 1..Len(LAM) : OutOfDomain(j))
    => /\ pc \in {"loop", "raised"}
       /\ package = NoPackage
       /\ \A j \in 1..Len(LAM) : OutOfDomain(j) => ilam <= j
       /\ pc = "raised" => sweep_raised = "NameError" /\ OutOfDomain(ilam)
       /\ pc = "loop" => ilam <= Len(LAM)

C19_Witness ==
    /\ entry = "get_mie_coefficients" /\ extrapolate_large_grains
    /\ pc = "raised" /\ sweep_raised = "NameError"
    /\ Len(LAM) = 2 /\ ilam = 2 /\ OutOfDomain(2) /\ ~OutOfDomain(1)
    /\ Len(calls[1]) > 0

C18_Witness ==
    /\ entry = "get_opacities" /\ pc = "raised"
    /\ sweep_raised = "AssertionError"
    /\ opac_args.diel_const # <<>> /\ opac_args.rho_s = None
    /\ ilam = 0 /\ calls = <<>>

(* A slot of q_sca that holds a positive efficiency: the result of a solver *)
(* call at a size parameter above 0 for a refractive index other than 1.    *)
Scatters(slot) ==
    slot.src = "bhmie" /\ slot.x > 0 /\ ~(slot.n = 1 /\ slot.k = 0)

(* C26: for every (size, wavelength) slot of a returned sweep, the slots    *)
(* filled by the large-grain extrapolation included, the Mueller matrix     *)
(* built from the slot's S1 and S2 is consistent with its kappa_sca: no     *)
(* slot has a positive scattering opacity while its S1 and S2 are the zeros *)
(* the arrays were made of.                                                 *)
C26_AmplitudesWhereScattering ==
    pc \in {"returned", "done"}
    => \A i \in 1..Len(A) : \A j \in 1..Len(LAM) :
          Scatters(q_sca[i][j]) => ~(s_1[i][j] = Zeros /\ s_2[i][j] = Zeros)

(* C27: the result column of a wavelength depends only on the size grid,    *)
(* the wavelength, the dielectric value at it and the flags: it holds the   *)
(* results of that wavelength's own solver calls, the slots past them are   *)
(* filled from the last of these calls, two equal wavelengths have equal    *)
(* columns, and the index of the fill is the one assigned in the            *)
(* wavelength's own size loop, which runs at least once.                    *)
ColumnOf(arr, j) == [i \in 1..Len(A) |-> arr[i][j]]
C27_ColumnOfItsOwnWavelength ==
    \A j \in 1..Len(LAM) :
        Swept(j)
        => LET own == Len(calls[j])
               m == nk(self, LAM[j])
           IN  /\ own > 0
               /\ j = ilam - 1 => ia = own
               /\ \A i \in 1..Len(A) :
                     LET call_of == bhmie_function(calls[j][Min2(i, own)], m.n, m.k)
                     IN  /\ q_abs[i][j] = call_of
                         /\ q_sca[i][j] = call_of
                         /\ g_sca[i][j] = IF i <= own THEN call_of
                                          ELSE laor_draine(Xij(i, j))
               /\ \A j2 \in 1..Len(LAM) :
                     (Swept(j2) /\ LAM[j2] = LAM[j])
                     => /\ ColumnOf(q_abs, j2) = ColumnOf(q_abs, j)
                        /\ ColumnOf(q_sca, j2) = ColumnOf(q_sca, j)
                        /\ ColumnOf(g_sca, j2) = ColumnOf(g_sca, j)
                        /\ ColumnOf(s_1, j2) = ColumnOf(s_1, j)
                        /\ ColumnOf(s_2, j2) = ColumnOf(s_2, j)

C27_Witness ==
    /\ pc = "returned" /\ extrapolate_large_grains
    /\ Len(LAM) = 2 /\ Len(A) = 3
    /\ Len(calls[1]) = 1 /\ Len(calls[2]) = 2 /\ ia = 2
    /\ q_abs[3][1] = q_abs[1][1] /\ q_abs[3][2] = q_abs[2][2]
    /\ q_abs[2][2] # q_abs[1][2]

----------------------------------------------------------------------------
(* diel_mixed *)

lower(rule) ==
    IF rule = "Bruggeman" THEN "bruggeman"
    ELSE IF rule = "Maxwell-Garnett" THEN "maxwell-garnett"
    ELSE rule

(* The constructor without the check of the rule. *)
diel_mixed_init_unchecked(constants, abundances, rule) ==
    [obj |-> [constants |-> constants, abundances |-> abundances,
              rule |-> rule, material_str |-> rule \o "-Mix",
              extrapol |-> FALSE],
     raised |-> ""]

(* diel_mixed.__init__: the rule is checked, the arguments are stored. *)
diel_mixed_init(constants, abundances, rule) ==
    IF lower(rule) \notin {"bruggeman", "maxwell-garnett"}
    THEN [obj |-> NoMixed, raised |-> "NameError"]
    ELSE [obj |-> [constants |-> constants, abundances |-> abundances,
                   rule |-> rule, material_str |-> rule \o "-Mix",
                   extrapol |-> FALSE],
          raised |-> ""]

(* Complex numbers are pairs <<re, im>> of integers; a quotient of two is   *)
(* kept as numerator and denominator, and a zero denominator is the         *)
(* nan/inf that numpy gives for a division by zero.                         *)
cadd(a, b) == <<a[1] + b[1], a[2] + b[2]>>
cmul(a, b) == <<a[1] * b[1] - a[2] * b[2], a[1] * b[2] + a[2] * b[1]>>
cscale(c, a) == <<c * a[1], c * a[2]>>
conj(a) == <<a[1], 0 - a[2]>>
Abs(x) == IF x < 0 THEN 0 - x ELSE x
(* A quotient is kept in lowest terms: numerator and denominator are        *)
(* divided by their greatest common divisor among the complex integers.     *)
cdiv_round(a, b) ==
    LET q == cmul(a, conj(b))
        m == cmul(b, conj(b))[1]
    IN  <<(2 * q[1] + m) \div (2 * m), (2 * q[2] + m) \div (2 * m)>>
RECURSIVE cgcd(_, _)
cgcd(a, b) ==
    IF b = <<0, 0>> THEN a
    ELSE cgcd(b, cadd(a, cscale(0 - 1, cmul(cdiv_round(a, b), b))))
unit_of(d) ==
    CHOOSE u \in {<<1, 0>>, <<0, 1>>, <<0 - 1, 0>>, <<0, 0 - 1>>} :
        cmul(u, d)[1] > 0 /\ cmul(u, d)[2] >= 0
nan_quotient == [num |-> <<0, 0>>, den |-> <<0, 0>>]
lowest(x) ==
    IF x.den = <<0, 0>> THEN nan_quotient
    ELSE LET g == cgcd(x.num, x.den)
             u == unit_of(cdiv_round(x.den, g))
         IN  [num |-> cmul(u, cdiv_round(x.num, g)),
              den |-> cmul(u, cdiv_round(x.den, g))]
fint(a) == [num |-> a, den |-> <<1, 0>>]
(* Common factors are taken out before the products are formed. *)
fadd(x, y) ==
    IF x.den = <<0, 0>> \/ y.den = <<0, 0>> THEN nan_quotient
    ELSE LET g == cgcd(x.den, y.den)
             xd == cdiv_round(x.den, g)
             yd == cdiv_round(y.den, g)
         IN  lowest([num |-> cadd(cmul(x.num, yd), cmul(y.num, xd)),
                     den |-> cmul(x.den, yd)])
fmul(x, y) ==
    IF x.den = <<0, 0>> \/ y.den = <<0, 0>> THEN nan_quotient
    ELSE LET g1 == cgcd(x.num, y.den)
             g2 == cgcd(y.num, x.den)
         IN  lowest([num |-> cmul(cdiv_round(x.num, g1), cdiv_round(y.num, g2)),
                     den |-> cmul(cdiv_round(x.den, g2), cdiv_round(y.den, g1))])
fdiv(x, y) ==
    IF y.den = <<0, 0>> \/ y.num = <<0, 0>> THEN nan_quotient
    ELSE fmul(x, [num |-> y.den, den |-> y.num])
feq(x, y) == cmul(x.num, y.den) = cmul(y.num, x.den)

(* complex(n, k)**2 *)
eps_of(m) == <<m.n * m.n - m.k * m.k, 2 * m.n * m.k>>

(* Whether some constituent's nk raises at l. *)
constituents_raise(mx, l) ==
    \E c \in 1..Len(mx.constants) : nk(mx.constants[c], l).raised # ""

(* eps: the square of complex(n, k) of every constituent at l *)
eps_at(mx, l) ==
    [c \in 1..Len(mx.constants) |-> eps_of(nk(mx.constants[c], l))]

(* numpy's broadcasting of two vectors of lengths a and b: they go together *)
(* when the lengths agree or one of them is 1; the result has the other's   *)
(* length, and an element of the shorter is its only one.                   *)
broadcasts(a, b) == a = b \/ a = 1 \/ b = 1
blen(a, b) == IF a = 1 THEN b ELSE a
bget(v, j) == IF Len(v) = 1 THEN v[1] ELSE v[j]

RECURSIVE fsum(_, _)
fsum(term(_), len) ==
    IF len = 0 THEN fint(<<0, 0>>) ELSE fadd(fsum(term, len - 1), term(len))

(* The mean that is the host's eps, whatever the inclusions. *)
maxwell_garnett_host_only(eps, abundances) == fint(eps[1])

(* The Maxwell-Garnett mean of Bohren & Huffman, volume fractions in        *)
(* tenths: the common factor 1/10 of numerator and denominator cancels.     *)
maxwell_garnett(eps, abundances) ==
    LET eps_m == eps[1]
        eps_i == Tail(eps)
        f_i == Tail(abundances)
        len == blen(Len(f_i), Len(eps_i))
        beta_i(j) == fdiv(fint(cscale(3, eps_m)),
                          fint(cadd(bget(eps_i, j), cscale(2, eps_m))))
        f == IF Len(f_i) = 0 THEN 0
             ELSE LET RECURSIVE s(_)
                      s(j) == IF j = 0 THEN 0 ELSE s(j - 1) + f_i[j]
                  IN  s(Len(f_i))
        fb(j) == fmul(fint(<<bget(f_i, j), 0>>), beta_i(j))
        fbe(j) == fmul(fb(j), fint(bget(eps_i, j)))
    IN  fdiv(fadd(fint(cscale(10 - f, eps_m)), fsum(fbe, len)),
             fadd(fint(<<10 - f, 0>>), fsum(fb, len)))

(* The call of line 1229 raises ValueError when f_i and eps_i do not        *)
(* broadcast; that of line 1205 when abundances and eps do not.             *)
mix_broadcasts(mx) ==
    IF lower(mx.rule) = "bruggeman"
    THEN broadcasts(Len(mx.abundances), Len(mx.constants))
    ELSE broadcasts(Len(mx.abundances) - 1, Len(mx.constants) - 1)

(* What an element of the returned n and k holds. *)
NoValue == [kind |-> "", n |-> 0, k |-> 0, num |-> <<0, 0>>, den |-> <<0, 0>>,
            eps |-> <<>>, f |-> <<>>]
exact_value(a, b) == [NoValue EXCEPT !.kind = "exact", !.n = a, !.k = b]

(* np.sqrt of a complex number: the root with real part >= 0, and with      *)
(* imaginary part >= 0 when the real part is 0 (eps[2] is then +0).  A      *)
(* quotient that is no whole complex number, or has no whole root, stays    *)
(* named by its numerator and denominator.                                  *)
csqrt(x) ==
    IF x.den = <<0, 0>> THEN [NoValue EXCEPT !.kind = "nan"]
    ELSE LET q == cmul(x.num, conj(x.den))
             m == cmul(x.den, conj(x.den))[1]
             e == <<q[1] \div m, q[2] \div m>>
             bound == Abs(e[1]) + Abs(e[2])
             roots == {r \in (0..bound) \X ((0 - bound)..bound) :
                          /\ cmul(r, r) = e
                          /\ (r[1] > 0 \/ r[2] >= 0)}
         IN  IF q[1] % m # 0 \/ q[2] % m # 0
             THEN [NoValue EXCEPT !.kind = "sqrt", !.num = x.num, !.den = x.den]
             ELSE IF roots = {}
             THEN [NoValue EXCEPT !.kind = "sqrt", !.num = e, !.den = <<1, 0>>]
             ELSE LET r == CHOOSE r \in roots : TRUE
                  IN  exact_value(r[1], r[2])

(* The seed of the root search, 0.5 + 0.5j, taken for the root. *)
bruggeman_seed(eps, abundances) == csqrt([num |-> <<1, 1>>, den |-> <<2, 0>>])

(* The root of sum(abundances * ((eps - x) / (eps + 2 x))) that findroot    *)
(* returns when it converges: eps itself when every constituent has the     *)
(* same eps (the only root), otherwise a root named by the equation.        *)
bruggeman(eps, abundances) ==
    IF \A c \in 1..Len(eps) : eps[c] = eps[1]
    THEN csqrt(fint(eps[1]))
    ELSE [NoValue EXCEPT !.kind = "sqrt_root", !.eps = eps, !.f = abundances]

(* mpmath's findroot with verify=False: what it has after the last step is  *)
(* returned, converged or not.                                              *)
findroot_unverified(converges) == ""

(* mpmath's findroot stops after maxsteps steps and raises ValueError when  *)
(* the function is not zero within the tolerance at what it found.          *)
findroot(converges) == IF converges THEN "" ELSE "ValueError"

(* The mixed (n, k) at one wavelength when every call of the pass returns:  *)
(* eps_mean[i], then np.sqrt.                                               *)
mixed_nk(mx, l) ==
    IF lower(mx.rule) = "bruggeman"
    THEN bruggeman(eps_at(mx, l), mx.abundances)
    ELSE csqrt(maxwell_garnett(eps_at(mx, l), mx.abundances))

(* What np.empty leaves in an element that is never assigned: any value,    *)
(* the right one included.                                                  *)
GarbageVals == {[NoValue EXCEPT !.kind = "uninitialized"]}
uninitialized(mx, l) ==
    GarbageVals \cup (IF constituents_raise(mx, l) \/ ~mix_broadcasts(mx)
                      THEN {} ELSE {mixed_nk(mx, l)})

(* diel_mixed.nk: the outcomes of a call with the array l.  The loop's      *)
(* first pass ends in the return, so only l[1] is mixed; an empty array     *)
(* falls through the loop and the call returns None (an empty ret here).    *)
(* findroot tells whether the root finder was called and how it ended.      *)
mixed_nk_array(mx, l) ==
    IF Len(l) = 0 THEN {[raised |-> "", ret |-> <<>>, findroot |-> "none"]}
    ELSE IF constituents_raise(mx, l[1])
    THEN {[raised |-> "NameError", ret |-> <<>>, findroot |-> "none"]}
    ELSE IF ~mix_broadcasts(mx)
    THEN {[raised |-> "ValueError", ret |-> <<>>, findroot |-> "none"]}
    ELSE LET returned ==
                 {q \in [1..Len(l) -> UNION {uninitialized(mx, l[i]) : i \in 1..Len(l)}
                                      \cup {mixed_nk(mx, l[1])}] :
                     /\ q[1] = mixed_nk(mx, l[1])
                     /\ \A i \in 2..Len(l) : q[i] \in uninitialized(mx, l[i])}
         IN  IF lower(mx.rule) = "bruggeman"
             THEN UNION {
                     IF findroot(converges) # ""
                     THEN {[raised |-> findroot(converges), ret |-> <<>>,
                            findroot |-> "failed"]}
                     ELSE {[raised |-> "", ret |-> r,
                            findroot |-> IF converges THEN "converged" ELSE "failed"] :
                             r \in returned}
                     : converges \in BOOLEAN}
             ELSE {[raised |-> "", ret |-> r, findroot |-> "none"] : r \in returned}

(* 10**np.log10(x) against x, in units of the last place of x: the two      *)
(* roundings give x itself, the float below it or the float above it        *)
(* (10**log10(5e-4) is below 5e-4, 10**log10(2e-4) is above 2e-4).          *)
RoundTrip == {0 - 1, 0, 1}

(* A wavelength of the grid: its place and how many floats it lies off it. *)
node(u, ulp) == [u |-> u, ulp |-> ulp]
below(nd, bound) == nd.u < bound \/ (nd.u = bound /\ nd.ulp < 0)
above(nd, bound) == nd.u > bound \/ (nd.u = bound /\ nd.ulp > 0)

(* The range check of the constituents' nk for a wavelength of the grid. *)
constituents_raise_at(mx, nd) ==
    \E c \in 1..Len(mx.constants) :
        below(nd, mx.constants[c]._lmin) \/ above(nd, mx.constants[c]._lmax)

(* lam = np.logspace(np.log10(lmin), np.log10(lmax), 200) with lmin the     *)
(* largest _lmin and lmax the smallest _lmax; the end points go through     *)
(* log10 and 10**, the inner nodes are not compared with any bound.         *)
normal_lmin(mx) == SeqMax([c \in 1..Len(mx.constants) |-> mx.constants[c]._lmin])
normal_lmax(mx) == SeqMin([c \in 1..Len(mx.constants) |-> mx.constants[c]._lmax])
normal_lam(mx, lo, hi) ==
    LET places == logspace(normal_lmin(mx), normal_lmax(mx), MaxNodes)
    IN  [i \in 1..MaxNodes |->
            node(places[i], IF i = 1 THEN lo ELSE IF i = MaxNodes THEN hi ELSE 0)]

(* d = diel_const(lam, n, k) with the mixer's material_str and extrapol:    *)
(* the bounds are the grid's first and last node.                           *)
normal_object(mx, lam) ==
    [_l |-> lam,
     _nk |-> [i \in 1..Len(lam) |-> mixed_nk(mx, lam[i].u)],
     _lmin |-> lam[1], _lmax |-> lam[Len(lam)],
     material_str |-> mx.material_str, extrapol |-> mx.extrapol]

(* nk of the returned object at its i-th node: the stored value through    *)
(* log10 and 10**.                                                          *)
plain_nk(d, i) ==
    [d._nk[i] EXCEPT !.n = Exp10Log10(d._nk[i].n), !.k = Exp10Log10(d._nk[i].k)]

(* diel_mixed.get_normal_object: the outcomes of a call.  self.nk is called *)
(* node by node; the first node that a constituent rejects, the first       *)
(* failure of the root finder or the mismatch of the lengths ends the call. *)
get_normal_object(mx) ==
    UNION { LET lam == normal_lam(mx, lo, hi)
                done == IF \E i \in 1..Len(lam) : constituents_raise_at(mx, lam[i])
                        THEN [raised |-> "NameError", obj |-> NoNormal,
                              findroot |-> "none"]
                        ELSE [raised |-> "", obj |-> normal_object(mx, lam),
                              findroot |-> "none"]
            IN  IF constituents_raise_at(mx, lam[1])
                THEN {[raised |-> "NameError", obj |-> NoNormal, findroot |-> "none"]}
                ELSE IF ~mix_broadcasts(mx)
                THEN {[raised |-> "ValueError", obj |-> NoNormal, findroot |-> "none"]}
                ELSE IF lower(mx.rule) = "bruggeman"
                THEN {[raised |-> findroot(FALSE), obj |-> NoNormal,
                       findroot |-> "failed"],
                      [done EXCEPT !.findroot = "converged"]}
                ELSE {done}
          : lo \in RoundTrip, hi \in RoundTrip }

MixTables ==
    { <<<<0, 1, 1>>, <<12, 1, 1>>>>,
      <<<<0, 2, 1>>, <<12, 1, 2>>>>,
      <<<<6, 2, 2>>, <<12, 2, 2>>>>,
      <<<<0, 0 - 1, 1>>, <<12, 0 - 1, 1>>>> }
MixConstituents == {diel_from_lnk_file_init(Col(t, 1), Col(t, 2), Col(t, 3)) : t \in MixTables}
AbundanceVals == {<<10>>, <<5, 5>>, <<3, 7>>, <<4, 3, 3>>, <<2, 2, 3, 3>>}    \* tenths
RuleVals == {"Bruggeman", "Maxwell-Garnett", "bruggeman", "Looyenga"}
MixQueryVals == {0, 6, 18}

MixConstruct ==
    /\ mix_pc = "new"
    /\ \E constants \in SeqsUpTo(MixConstituents, MaxConst) :
       \E abundances \in AbundanceVals :
       \E rule \in RuleVals :
          LET r == diel_mixed_init(constants, abundances, rule)
          IN  /\ mixed' = r.obj
              /\ mix_raised' = r.raised
              /\ mix_pc' = IF r.raised = "" THEN "ready" ELSE "failed"
    /\ UNCHANGED <<mix_l, mix_ret, mix_findroot, normal, normal_raised>>
    /\ UNCHANGED <<dielVars, sweepVars, aggVars>>

(* get_normal_object reads the mixer and its constituents and builds a new  *)
(* object.                                                                  *)
MixNormalObject ==
    /\ mix_pc = "ready"
    /\ \E r \in get_normal_object(mixed) :
          /\ normal' = r.obj
          /\ normal_raised' = r.raised
          /\ mix_findroot' = r.findroot
    /\ mix_pc' = "normal"
    /\ UNCHANGED <<mixed, mix_l, mix_ret, mix_raised>>
    /\ UNCHANGED <<dielVars, sweepVars, aggVars>>

(* nk reads the mixer and changes nothing: the model takes one query. *)
MixQuery ==
    /\ mix_pc = "ready"
    /\ \E l \in {<<>>} \cup SeqsUpTo(MixQueryVals, MaxArr) :
       \E r \in mixed_nk_array(mixed, l) :
          /\ mix_l' = l
          /\ mix_ret' = r.ret
          /\ mix_raised' = r.raised
          /\ mix_findroot' = r.findroot
    /\ mix_pc' = "queried"
    /\ UNCHANGED <<mixed, normal, normal_raised>>
    /\ UNCHANGED <<dielVars, sweepVars, aggVars>>

InitMix ==
    /\ phase = "new" /\ self = diel_const_class
    /\ call = NoCall /\ raised = "" /\ ret = NoRet
    /\ extensions = 0 /\ ext_raised = FALSE
    /\ SweepIdle
    /\ mixed = NoMixed /\ mix_pc = "new" /\ mix_l = <<>>
    /\ mix_ret = <<>> /\ mix_raised = "" /\ mix_findroot = "none"
    /\ normal = NoNormal /\ normal_raised = ""
    /\ AggIdle

NextMix ==
    \/ MixConstruct
    \/ MixQuery
    \/ MixNormalObject

SpecMix == InitMix /\ [][NextMix]_vars

(* C7: an nk call of the mixer with an array of wavelengths that returns,   *)
(* returns for every element of the array, not only the first, the mixing   *)
(* rule's result for the constituents at that element's wavelength.         *)
C7_ArrayQueryMixesEveryElement ==
    (mix_pc = "queried" /\ mix_raised = "" /\ Len(mix_l) > 0)
    => /\ Len(mix_ret) = Len(mix_l)
       /\ \A i \in 1..Len(mix_l) :
             /\ ~constituents_raise(mixed, mix_l[i])
             /\ mix_ret[i] = mixed_nk(mixed, mix_l[i])

(* The eps whose root a returned element is. *)
eps_value(v) ==
    IF v.kind = "exact" THEN fint(<<v.n * v.n - v.k * v.k, 2 * v.n * v.k>>)
    ELSE [num |-> v.num, den |-> v.den]

(* C20: a get_normal_object call whose mixing succeeds at every node        *)
(* returns a plain spectrum whose domain is exactly the intersection of the *)
(* constituents' domains, from the largest _lmin to the smallest _lmax,     *)
(* sampled on a log-spaced grid, and whose (n, k) at every node of the grid *)
(* is the mixer's nk at that node.                                          *)
C20_NormalObjectSpansIntersection ==
    (mix_pc = "normal" /\ mix_broadcasts(mixed) /\ mix_findroot # "failed")
    => /\ normal_raised = ""
       /\ normal._lmin = node(normal_lmin(mixed), 0)
       /\ normal._lmax = node(normal_lmax(mixed), 0)
       /\ [i \in 1..Len(normal._l) |-> normal._l[i].u]
             = logspace(normal_lmin(mixed), normal_lmax(mixed), MaxNodes)
       /\ \A i \in 1..Len(normal._l) :
             plain_nk(normal, i) = mixed_nk(mixed, normal._l[i].u)

(* C13: under Maxwell-Garnett, with as many volume fractions as             *)
(* constituents, the eps_eff of a query that returns is                     *)
(* [(1-f) eps_h + sum f_i beta_i eps_i] / [1 - f + sum f_i beta_i] with     *)
(* host eps_h = constituent 0, beta_i = 3 eps_h / (eps_i + 2 eps_h) and     *)
(* f the sum of the inclusions' fractions (written here with the            *)
(* denominators multiplied out, fractions in tenths); two constituents of   *)
(* the same eps mixed 50/50 give that eps.                                  *)
C13_MaxwellGarnettClosedForm ==
    (/\ mix_pc = "queried" /\ mix_raised = "" /\ Len(mix_l) > 0
     /\ lower(mixed.rule) = "maxwell-garnett"
     /\ Len(mixed.abundances) = Len(mixed.constants))
    => LET eps == eps_at(mixed, mix_l[1])
           F == mixed.abundances
           x == eps_value(mix_ret[1])
           host == eps[1]
           Bn == cscale(3, host)
           Bd(i) == cadd(eps[i], cscale(2, host))
       IN  /\ mix_ret[1].kind \in {"exact", "sqrt"}
           /\ Len(eps) = 1 => x = fint(host)
           /\ Len(eps) = 2 =>
                 cmul(x.num, cadd(cscale(10 - F[2], Bd(2)), cscale(F[2], Bn)))
                 = cmul(x.den, cadd(cscale(10 - F[2], cmul(host, Bd(2))),
                                    cscale(F[2], cmul(Bn, eps[2]))))
           /\ Len(eps) = 3 =>
                 cmul(x.num,
                      cadd(cscale(10 - F[2] - F[3], cmul(Bd(2), Bd(3))),
                           cadd(cscale(F[2], cmul(Bn, Bd(3))),
                                cscale(F[3], cmul(Bn, Bd(2))))))
                 = cmul(x.den,
                      cadd(cscale(10 - F[2] - F[3], cmul(host, cmul(Bd(2), Bd(3)))),
                           cadd(cscale(F[2], cmul(cmul(Bn, eps[2]), Bd(3))),
                                cscale(F[3], cmul(cmul(Bn, eps[3]), Bd(2))))))
           /\ (Len(eps) = 2 /\ eps[2] = host /\ F = <<5, 5>>) => x = fint(host)

C13_Witness ==
    /\ mix_pc = "queried" /\ mix_raised = "" /\ mix_l = <<6>>
    /\ mixed.rule = "Maxwell-Garnett" /\ mixed.abundances = <<5, 5>>
    /\ Len(mixed.constants) = 2
    /\ mixed.constants[1] = mixed.constants[2]
    /\ mixed.constants[1]._n = <<2, 2>>
    /\ mix_ret = <<exact_value(2, 2)>>

SingleBruggeman ==
    /\ mix_pc = "queried" /\ mix_raised = "" /\ Len(mix_l) > 0
    /\ lower(mixed.rule) = "bruggeman"
    /\ Len(mixed.constants) = 1 /\ mixed.abundances = <<10>>

C16_UnknownRuleRaises ==
    /\ (mix_pc = "failed" =>
           mix_raised = "NameError" /\ mixed = NoMixed /\ mix_l = <<>> /\ mix_ret = <<>>)
    /\ (mix_pc \in {"ready", "queried"} =>
           lower(mixed.rule) \in {"bruggeman", "maxwell-garnett"})

C16_Witness ==
    mix_pc = "failed" /\ mix_raised = "NameError" /\ mixed = NoMixed

(* C17: a query of a mixer that has not as many volume fractions as         *)
(* constituents raises an error and returns no mixed (n, k), whatever the   *)
(* two lengths and the rule.                                                *)
C17_MismatchedLengthsRaise ==
    (/\ mix_pc = "queried" /\ Len(mix_l) > 0
     /\ Len(mixed.abundances) # Len(mixed.constants))
    => mix_raised # "" /\ mix_ret = <<>>

----------------------------------------------------------------------------
(* The functions on arrays: opacities, size distributions, Mueller matrix *)

(* A float is held as (n / d) pi^p with d > 0 and n / d in lowest terms;    *)
(* d = 0 is IEEE's inf (n = 1), -inf (n = -1) or nan (n = 0).  Rounding is  *)
(* left out; the sign of a zero is left out.                                *)
RECURSIVE gcd(_, _)
gcd(a, b) == IF b = 0 THEN a ELSE gcd(b, a % b)
sign(x) == IF x > 0 THEN 1 ELSE IF x < 0 THEN 0 - 1 ELSE 0
real(n, d, p) ==
    IF d = 0 THEN [n |-> sign(n), d |-> 0, p |-> 0]
    ELSE IF n = 0 THEN [n |-> 0, d |-> 1, p |-> 0]
    ELSE LET g == gcd(Abs(n), Abs(d))
         IN  [n |-> sign(n) * sign(d) * (Abs(n) \div g), d |-> Abs(d) \div g,
              p |-> p]
int(k) == real(k, 1, 0)
Pi == real(1, 1, 1)
nan == real(0, 0, 0)
isnan(x) == x.d = 0 /\ x.n = 0
isinf(x) == x.d = 0 /\ x.n # 0
rmul(x, y) ==
    IF x.d = 0 \/ y.d = 0 THEN real(sign(x.n) * sign(y.n), 0, 0)
    ELSE real(x.n * y.n, x.d * y.d, x.p + y.p)
rdiv(x, y) ==
    IF isnan(x) \/ isnan(y) THEN nan
    ELSE IF isinf(y) THEN (IF isinf(x) THEN nan ELSE int(0))
    ELSE IF isinf(x) THEN real(x.n * (IF y.n < 0 THEN 0 - 1 ELSE 1), 0, 0)
    ELSE IF y.n = 0 THEN real(sign(x.n), 0, 0)
    ELSE real(x.n * y.d, x.d * y.n, x.p - y.p)
(* The sums of these functions add numbers of one power of pi. *)
radd(x, y) ==
    IF isnan(x) \/ isnan(y) THEN nan
    ELSE IF isinf(x) /\ isinf(y) THEN (IF x.n = y.n THEN x ELSE nan)
    ELSE IF isinf(x) THEN x
    ELSE IF isinf(y) THEN y
    ELSE IF x.n = 0 THEN y
    ELSE IF y.n = 0 THEN x
    ELSE real(x.n * y.d + y.n * x.d, x.d * y.d, x.p)
rneg(x) == [x EXCEPT !.n = 0 - x.n]
rsub(x, y) == radd(x, rneg(y))
(* x <= y for floats of one power of pi; False when either is nan. *)
rle(x, y) ==
    IF isnan(x) \/ isnan(y) THEN FALSE
    ELSE IF x.d = 0 \/ y.d = 0
    THEN (x.d = 0 /\ x.n < 0) \/ (y.d = 0 /\ y.n > 0) \/ x = y
    ELSE x.n * y.d <= y.n * x.d
RECURSIVE rsum(_, _)
rsum(term(_), len) == IF len = 0 THEN int(0) ELSE radd(rsum(term, len - 1), term(len))

(* The value of m = 4. * np.pi / 3. * rho_s * a**3 *)
mass_value(m) ==
    rmul(rmul(rdiv(rmul(int(4), Pi), int(3)), int(m.rho_s)),
         int(m.a * m.a * m.a))

(* The value of an element of get_kappa_from_q: q * (pi a**2 / m) *)
kappa_value(kap) ==
    rmul(int(kap.q), rdiv(rmul(Pi, int(kap.a * kap.a)), mass_value(kap.m)))

(* Inputs of the array functions *)
AggSizeVals == {1, 2}
AggRhoVals == {0, 1, 2}
QVals == {0, 1}
Matrices(rows, cols, S) == [1..rows -> [1..cols -> S]]
ConstMatrix(rows, cols, v) == [i \in 1..rows |-> [j \in 1..cols |-> v]]

(* get_opacities from m = ... to the opacities, or get_kappa_from_q itself  *)
(* with the masses of the sizes.                                            *)
KappaFromQ ==
    /\ agg_pc = "new"
    /\ \E a \in SeqsUpTo(AggSizeVals, MaxGrid) :
       \E rho \in AggRhoVals :
       \E n_lam \in 1..MaxGrid :
       \E qa \in Matrices(Len(a), n_lam, QVals) :
       \E qs \in {ConstMatrix(Len(a), n_lam, v) : v \in QVals} :
          /\ agg_in' = [a |-> a, rho_s |-> rho, q_abs |-> qa, q_sca |-> qs]
          /\ agg_out' = [k_abs |-> get_kappa_from_q(a, mass(rho, a), qa),
                         k_sca |-> get_kappa_from_q(a, mass(rho, a), qs)]
    /\ agg_op' = "get_kappa_from_q"
    /\ agg_raised' = ""
    /\ agg_pc' = "done"
    /\ UNCHANGED <<dielVars, sweepVars, mixVars>>

(* sig = n * m * a; sig = sig / sum(sig) *)
sig_of(a, n, rho) ==
    LET raw(i) == rmul(rmul(int(n[i]), mass_value([rho_s |-> rho, a |-> a[i]])),
                       int(a[i]))
    IN  [i \in 1..Len(a) |-> rdiv(raw(i), rsum(raw, Len(a)))]

(* kappa_abs_m[i] = sum(np.transpose(kappa_abs[:, i]) * sig, 0) *)
size_average(kappa, sig, n_lam) ==
    [j \in 1..n_lam |->
        LET term(i) == rmul(kappa_value(kappa[i][j]), sig[i])
        IN  rsum(term, Len(sig))]

(* None as an array argument *)
NoArray == <<>>

(* get_size_averaged_opacity.  asserts tells whether the interpreter runs   *)
(* assert statements (it does not under -O); sweep is what the call of      *)
(* get_mie_coefficients raised, "" when it returned.  kappa_abs and         *)
(* kappa_sca are assigned in the elif branch alone, so the loop over the    *)
(* wavelengths finds them unbound after either other branch.                *)
get_size_averaged_opacity(a, n_lam, n, rho, diel, qa, qs, ka, ks, asserts, sweep) ==
    LET no_q == qa = NoArray \/ qs = NoArray
        no_k == ka = NoArray \/ ks = NoArray
        failed(exc) == [raised |-> exc, kappa_abs_m |-> <<>>, kappa_sca_m |-> <<>>]
        sig == sig_of(a, n, rho)
        m == mass(rho, a)
    IN  IF asserts /\ diel = "None" THEN failed("AssertionError")
        ELSE IF no_q /\ no_k /\ diel = "None" THEN failed("AssertionError")
        ELSE IF no_q /\ no_k
        THEN (IF sweep # "" THEN failed(sweep) ELSE failed("UnboundLocalError"))
        ELSE IF no_k
        THEN [raised |-> "",
              kappa_abs_m |-> size_average(get_kappa_from_q(a, m, qa), sig, n_lam),
              kappa_sca_m |-> size_average(get_kappa_from_q(a, m, qs), sig, n_lam)]
        ELSE failed("UnboundLocalError")

NVals == {0, 1, 2}
IndexMatrix(rows, cols) == [i \in 1..rows |-> [j \in 1..cols |-> i]]
AverageQ(rows, cols) ==
    {NoArray, IndexMatrix(rows, cols)} \cup {ConstMatrix(rows, cols, v) : v \in QVals}

SizeAverage ==
    /\ agg_pc = "new"
    /\ \E a \in SeqsUpTo(AggSizeVals, MaxGrid) :
       \E n \in [1..Len(a) -> NVals] :
       \E rho \in AggRhoVals :
       \E n_lam \in 1..MaxGrid :
       \E diel \in {"None", "given"} :
       \E q \in AverageQ(Len(a), n_lam) :
       \E k \in {NoArray, ConstMatrix(Len(a), n_lam, 1)} :
       \E asserts \in BOOLEAN :
       \E sweep \in {"", "NameError"} :
          /\ (sweep # "") => (diel = "given" /\ q = NoArray /\ k = NoArray)
          /\ agg_in' = [a |-> a, n_lam |-> n_lam, n |-> n, rho_s |-> rho,
                        diel_const |-> diel, q_abs |-> q, q_sca |-> q,
                        k_abs |-> k, k_sca |-> k, asserts |-> asserts,
                        sweep |-> sweep]
          /\ \E r \in {get_size_averaged_opacity(a, n_lam, n, rho, diel, q, q,
                                                 k, k, asserts, sweep)} :
                /\ agg_out' = r
                /\ agg_raised' = r.raised
    /\ agg_op' = "get_size_averaged_opacity"
    /\ agg_pc' = "done"
    /\ UNCHANGED <<dielVars, sweepVars, mixVars>>

(* np.trapz(y, x=x): sum of (x[i+1] - x[i]) (y[i] + y[i+1]) / 2; 0 for a    *)
(* grid of one point.                                                       *)
trapz(y, x) ==
    LET term(i) == rmul(int(x[i + 1] - x[i]), rdiv(radd(y[i], y[i + 1]), int(2)))
    IN  rsum(term, Len(x) - 1)

(* dist * m of the two distributions *)
dist_m(dist, a, rho) ==
    [i \in 1..Len(a) |-> rmul(dist[i], mass_value([rho_s |-> rho, a |-> a[i]]))]

(* dist / np.trapz(dist * m, x=a) *)
normalized(dist, a, rho) ==
    [i \in 1..Len(a) |-> rdiv(dist[i], trapz(dist_m(dist, a, rho), a))]

(* The power law without its cut-off. *)
powerlaw_dist_uncut(a, a_max, q) ==
    [i \in 1..Len(a) |-> real(1, Pow(a[i], q), 0)]

(* dist = a**-q * (a <= a_max) *)
powerlaw_dist(a, a_max, q) ==
    [i \in 1..Len(a) |->
        rmul(real(1, Pow(a[i], q), 0), int(IF a[i] <= a_max THEN 1 ELSE 0))]

powerlaw_N_of_a(a, a_max, q, rho) == normalized(powerlaw_dist(a, a_max, q), a, rho)

(* np.exp(-t) for t = u / v: 4^(-t) stands for it, which like exp is 1 at   *)
(* 0, positive and decreasing; exp(-inf) is 0 and exp(nan) is nan.  The     *)
(* exponents of the model are halves of whole numbers.                      *)
exp_minus(t) ==
    IF isnan(t) THEN nan
    ELSE IF isinf(t) THEN (IF t.n > 0 THEN int(0) ELSE real(1, 0, 0))
    ELSE real(1, Pow(2, (2 * t.n) \div t.d), 0)

(* dist = np.exp(-(a - a_mean)**2 / (2 * sigma_a**2)) *)
gaussian_dist(a, a_mean, sigma_a) ==
    [i \in 1..Len(a) |->
        exp_minus(rdiv(int((a[i] - a_mean) * (a[i] - a_mean)),
                       int(2 * sigma_a * sigma_a)))]

gaussian_N_of_a(a, a_mean, sigma_a, rho) ==
    normalized(gaussian_dist(a, a_mean, sigma_a), a, rho)

DistSizeVals == {1, 2, 3}
DistGrids == SeqsUpTo(DistSizeVals, MaxGrid + 1)
ExponentVals == {0, 1, 2}
SigmaVals == {0, 1}

PowerLaw ==
    /\ agg_pc = "new"
    /\ \E a \in DistGrids :
       \E a_max \in {0} \cup DistSizeVals :
       \E q \in ExponentVals :
       \E rho \in AggRhoVals :
          /\ agg_in' = [a |-> a, a_max |-> a_max, q |-> q, rho_s |-> rho]
          /\ agg_out' = powerlaw_N_of_a(a, a_max, q, rho)
    /\ agg_op' = "powerlaw_N_of_a"
    /\ agg_raised' = ""
    /\ agg_pc' = "done"
    /\ UNCHANGED <<dielVars, sweepVars, mixVars>>

Gaussian ==
    /\ agg_pc = "new"
    /\ \E a \in DistGrids :
       \E a_mean \in DistSizeVals :
       \E sigma_a \in SigmaVals :
       \E rho \in AggRhoVals :
          /\ agg_in' = [a |-> a, a_mean |-> a_mean, sigma_a |-> sigma_a,
                        rho_s |-> rho]
          /\ agg_out' = gaussian_N_of_a(a, a_mean, sigma_a, rho)
    /\ agg_op' = "gaussian_N_of_a"
    /\ agg_raised' = ""
    /\ agg_pc' = "done"
    /\ UNCHANGED <<dielVars, sweepVars, mixVars>>

(* np.abs(S)**2 of a complex amplitude *)
abs2(s) == s[1] * s[1] + s[2] * s[2]

(* factor = (lam[None, :] / (2 * np.pi))**2 / m[:, None] *)
mueller_factor(lam, m) ==
    LET w == rdiv(int(lam), rmul(int(2), Pi))
    IN  rdiv(rmul(w, w), int(m))

S11_of(s1, s2) == rmul(real(1, 2, 0), int(abs2(s2) + abs2(s1)))
(* S12 with the sum of S11 in place of the difference. *)
S12_of_sum(s1, s2) == rmul(real(1, 2, 0), int(abs2(s2) + abs2(s1)))
S12_of(s1, s2) == rmul(real(1, 2, 0), int(abs2(s2) - abs2(s1)))
S33_of(s1, s2) == int(cmul(s2, conj(s1))[1])
S34_of(s1, s2) == int(cmul(s2, conj(s1))[2])

(* The six elements in the order S11, S12, S33, S34, S11, S33. *)
mueller_elements_reordered(s1, s2, factor) ==
    <<rmul(S11_of(s1, s2), factor), rmul(S12_of(s1, s2), factor),
      rmul(S33_of(s1, s2), factor), rmul(S34_of(s1, s2), factor),
      rmul(S11_of(s1, s2), factor), rmul(S33_of(s1, s2), factor)>>

(* zscat[..., 0] to zscat[..., 5] of one size, wavelength and angle *)
mueller_elements(s1, s2, factor) ==
    <<rmul(S11_of(s1, s2), factor), rmul(S12_of(s1, s2), factor),
      rmul(S11_of(s1, s2), factor), rmul(S33_of(s1, s2), factor),
      rmul(S34_of(s1, s2), factor), rmul(S33_of(s1, s2), factor)>>

(* calculate_mueller_matrix(lam, m, S1, S2) *)
calculate_mueller_matrix(lam, m, S1, S2) ==
    [i \in 1..Len(m) |-> [j \in 1..Len(lam) |-> [t \in 1..Len(S1[1][1]) |->
        mueller_elements(S1[i][j][t], S2[i][j][t], mueller_factor(lam[j], m[i]))]]]

MassVals == {0, 1, 2}
WaveVals == {1, 2}
AmplitudeVals == {<<0, 0>>, <<1, 1>>, <<0, 0 - 2>>}
MaxAngles == 2
(* Amplitudes that differ from size to size and wavelength to wavelength:   *)
(* the base amplitude of the angle times (i + (j - 1) sqrt(-1)).            *)
Amplitudes(base, rows, cols) ==
    [i \in 1..rows |-> [j \in 1..cols |-> [t \in 1..Len(base) |->
        cmul(base[t], <<i, j - 1>>)]]]

MuellerMatrix ==
    /\ agg_pc = "new"
    /\ \E lam \in SeqsUpTo(WaveVals, MaxGrid) :
       \E m \in SeqsUpTo(MassVals, MaxGrid) :
       \E n_ang \in 1..MaxAngles :
       \E b1 \in [1..n_ang -> AmplitudeVals] :
       \E b2 \in [1..n_ang -> AmplitudeVals] :
       \E S1 \in {Amplitudes(b1, Len(m), Len(lam))} :
       \E S2 \in {Amplitudes(b2, Len(m), Len(lam))} :
          /\ agg_in' = [lam |-> lam, m |-> m, S1 |-> S1, S2 |-> S2]
          /\ agg_out' = calculate_mueller_matrix(lam, m, S1, S2)
    /\ agg_op' = "calculate_mueller_matrix"
    /\ agg_raised' = ""
    /\ agg_pc' = "done"
    /\ UNCHANGED <<dielVars, sweepVars, mixVars>>

InitAgg ==
    /\ phase = "new" /\ self = diel_const_class
    /\ call = NoCall /\ raised = "" /\ ret = NoRet
    /\ extensions = 0 /\ ext_raised = FALSE
    /\ SweepIdle
    /\ MixIdle
    /\ agg_pc = "new" /\ agg_op = "" /\ agg_in = <<>> /\ agg_out = <<>>
    /\ agg_raised = ""

NextAgg ==
    \/ KappaFromQ
    \/ SizeAverage
    \/ PowerLaw
    \/ Gaussian
    \/ MuellerMatrix

SpecAgg == InitAgg /\ [][NextAgg]_vars

AllZero(q) == \A i \in 1..Len(q) : \A j \in 1..Len(q[i]) : q[i][j] = 0
KappaIs(kap, q, a, rho) ==
    LET v == kappa_value(kap)
    IN  IF rho * a = 0 THEN v.d = 0
        ELSE v.d > 0 /\ v.n * 4 * rho * a = 3 * q * v.d /\ v.p = 0
KappaZero(k) ==
    \A i \in 1..Len(k) : \A j \in 1..Len(k[i]) : kappa_value(k[i][j]) = int(0)

(* C21: every element of the opacities of get_kappa_from_q is its           *)
(* efficiency times pi a_i^2 / m_i with m_i = (4/3) pi rho_s a_i^3, that is *)
(* 3 q / (4 rho_s a_i) when rho_s a_i is not zero; efficiencies that are    *)
(* all zero give opacities that are exactly zero.                           *)
C21_ZeroEfficiencyZeroOpacity ==
    agg_op = "get_kappa_from_q"
    => /\ \A i \in 1..Len(agg_in.a) : \A j \in 1..Len(agg_in.q_abs[i]) :
             /\ KappaIs(agg_out.k_abs[i][j], agg_in.q_abs[i][j],
                        agg_in.a[i], agg_in.rho_s)
             /\ KappaIs(agg_out.k_sca[i][j], agg_in.q_sca[i][j],
                        agg_in.a[i], agg_in.rho_s)
       /\ AllZero(agg_in.q_abs) => KappaZero(agg_out.k_abs)
       /\ AllZero(agg_in.q_sca) => KappaZero(agg_out.k_sca)

(* C21 for grains that have a mass: with rho_s > 0 and every a_i > 0 the    *)
(* opacities are 3 q / (4 rho_s a_i), and zero where the efficiency is      *)
(* zero; with rho_s = 0 the factor pi a^2 / m is inf and the opacity of a   *)
(* zero efficiency is nan.                                                  *)
C21_KappaOfGrainsWithMass ==
    agg_op = "get_kappa_from_q"
    => /\ \A i \in 1..Len(agg_in.a) : \A j \in 1..Len(agg_in.q_abs[i]) :
             /\ KappaIs(agg_out.k_abs[i][j], agg_in.q_abs[i][j],
                        agg_in.a[i], agg_in.rho_s)
             /\ KappaIs(agg_out.k_sca[i][j], agg_in.q_sca[i][j],
                        agg_in.a[i], agg_in.rho_s)
       /\ (agg_in.rho_s > 0 /\ AllZero(agg_in.q_abs)) => KappaZero(agg_out.k_abs)
       /\ (agg_in.rho_s > 0 /\ AllZero(agg_in.q_sca)) => KappaZero(agg_out.k_sca)
       /\ (agg_in.rho_s = 0 /\ AllZero(agg_in.q_abs))
          => \A i \in 1..Len(agg_in.a) : isnan(kappa_value(agg_out.k_abs[i][1]))

C21_Witness ==
    /\ agg_op = "get_kappa_from_q" /\ agg_in.rho_s = 2 /\ agg_in.a = <<1, 2>>
    /\ agg_in.q_abs = <<<<0, 0>>, <<0, 0>>>> /\ agg_in.q_sca = <<<<1, 1>>, <<1, 1>>>>
    /\ KappaZero(agg_out.k_abs)
    /\ kappa_value(agg_out.k_sca[2][1]) = real(3, 16, 0)

(* The input options of get_size_averaged_opacity *)
HasDiel == agg_in.diel_const # "None"
HasQ == agg_in.q_abs # NoArray /\ agg_in.q_sca # NoArray
HasK == agg_in.k_abs # NoArray /\ agg_in.k_sca # NoArray
Averaged == agg_op = "get_size_averaged_opacity"
RECURSIVE isum(_, _)
isum(term(_), len) == IF len = 0 THEN 0 ELSE isum(term, len - 1) + term(len)

(* C22: a get_size_averaged_opacity call that is given one of its inputs    *)
(* returns for every wavelength j kappa_bar[j] = sum_i kappa[i,j] w_i with  *)
(* w_i = N_i m_i a_i / sum_k N_k m_k a_k (with m ~ a^3 and kappa = 3 q /    *)
(* (4 rho_s a): 4 rho_s kappa_bar[j] sum_k N_k a_k^4 = 3 sum_i q[i,j] N_i   *)
(* a_i^3); the weights are >= 0 and sum to 1, and each kappa_bar[j] lies    *)
(* between the smallest and the largest kappa[i,j] of its wavelength.       *)
C22_AverageIsWeightedMean ==
    (Averaged /\ (HasDiel \/ HasQ \/ HasK) /\ agg_in.sweep = "")
    => /\ agg_raised = ""
       /\ LET a == agg_in.a
              w == sig_of(a, agg_in.n, agg_in.rho_s)
              wi(i) == w[i]
              kap == get_kappa_from_q(a, mass(agg_in.rho_s, a), agg_in.q_abs)
              n4(i) == agg_in.n[i] * a[i] * a[i] * a[i] * a[i]
          IN  /\ \A i \in 1..Len(a) : rle(int(0), w[i])
              /\ rsum(wi, Len(a)) = int(1)
              /\ \A j \in 1..agg_in.n_lam :
                    LET v == agg_out.kappa_abs_m[j]
                        qn3(i) == agg_in.q_abs[i][j] * agg_in.n[i] * a[i] * a[i] * a[i]
                    IN  /\ v.d > 0 /\ v.p = 0
                        /\ v.n * 4 * agg_in.rho_s * isum(n4, Len(a))
                              = 3 * isum(qn3, Len(a)) * v.d
                        /\ \E i \in 1..Len(a) : rle(kappa_value(kap[i][j]), v)
                        /\ \E i \in 1..Len(a) : rle(v, kappa_value(kap[i][j]))

(* C23: get_size_averaged_opacity returns the averaged opacities when       *)
(* diel_const alone, (q_abs, q_sca) alone or (k_abs, k_sca) alone is given, *)
(* and raises only when none of the three is given.                         *)
C23_AnyOneOptionReturns ==
    (Averaged /\ agg_in.sweep = "")
    => /\ (HasDiel /\ ~HasQ /\ ~HasK) => agg_raised = ""
       /\ (~HasDiel /\ HasQ /\ ~HasK) => agg_raised = ""
       /\ (~HasDiel /\ ~HasQ /\ HasK) => agg_raised = ""
       /\ agg_raised # "" => (~HasDiel /\ ~HasQ /\ ~HasK)

Distributed == agg_op \in {"powerlaw_N_of_a", "gaussian_N_of_a"}
(* The trapezoidal integral of N(a) m(a) over the grid is 1. *)
OneGram ==
    trapz(dist_m(agg_out, agg_in.a, agg_in.rho_s), agg_in.a) = int(1)
(* N is zero above a_max and proportional to a^(-q) up to it. *)
CutPowerLaw ==
    \A i \in 1..Len(agg_in.a) :
        IF agg_in.a[i] > agg_in.a_max THEN agg_out[i] = int(0)
        ELSE \A k \in 1..Len(agg_in.a) :
                agg_in.a[k] <= agg_in.a_max
                => rmul(agg_out[i], int(Pow(agg_in.a[i], agg_in.q)))
                      = rmul(agg_out[k], int(Pow(agg_in.a[k], agg_in.q)))

(* C24: the N returned by powerlaw_N_of_a and by gaussian_N_of_a has the    *)
(* trapezoidal integral of N(a) m(a) over the supplied grid equal to 1      *)
(* gram; the power law is zero at every grid size above a_max and           *)
(* proportional to a^(-q) at every grid size at or below a_max.             *)
C24_NormalizedToOneGram ==
    Distributed
    => /\ OneGram
       /\ agg_op = "powerlaw_N_of_a" => CutPowerLaw

(* C24 on a strictly increasing grid of at least two sizes with rho_s > 0,  *)
(* whose smallest size is not above a_max (power law) or with sigma_a not   *)
(* zero (Gaussian): there the integral of the unnormalized distribution is  *)
(* positive; on other grids it can be zero and N is then inf or nan.        *)
C24_NormalizedOnIncreasingGrid ==
    (/\ Distributed /\ Len(agg_in.a) >= 2 /\ StrictlyIncreasing(agg_in.a)
     /\ agg_in.rho_s > 0
     /\ agg_op = "powerlaw_N_of_a" => agg_in.a[1] <= agg_in.a_max
     /\ agg_op = "gaussian_N_of_a" => agg_in.sigma_a # 0)
    => /\ OneGram
       /\ agg_op = "powerlaw_N_of_a" => CutPowerLaw

C24_Witness ==
    /\ agg_op = "powerlaw_N_of_a" /\ agg_in.a = <<1, 2, 3>> /\ agg_in.a_max = 2
    /\ agg_in.q = 2 /\ agg_in.rho_s = 1
    /\ OneGram /\ agg_out[3] = int(0)
    /\ agg_out[1] = rmul(int(4), agg_out[2]) /\ agg_out[1].n > 0

Muellered == agg_op = "calculate_mueller_matrix"
Slots == {<<i, j, t>> \in (1..Len(agg_in.m)) \X (1..Len(agg_in.lam))
                          \X (1..Len(agg_in.S1[1][1])) : TRUE}
(* v is c lam^2 / (4 pi^2 m), or inf or nan when m is 0 *)
TimesKWave(v, c, lam, m) ==
    IF m = 0 THEN v.d = 0
    ELSE /\ v.d > 0 /\ v.n * 4 * m = c * lam * lam * v.d
         /\ (v.n # 0 => v.p = 0 - 2)
rsq(x) == rmul(x, x)
rabs(x) == IF x.n < 0 THEN rneg(x) ELSE x

(* C25: calculate_mueller_matrix returns an array of shape (n_sizes,        *)
(* n_wavelengths, n_angles, 6) whose six elements per angle are [S11, S12,  *)
(* S11, S33, S34, S33] times k_wave = (lambda / (2 pi))^2 / m, with S11 =   *)
(* (|S2|^2 + |S1|^2) / 2, S12 = (|S2|^2 - |S1|^2) / 2, S33 = Re(S2          *)
(* conj(S1)), S34 = Im(S2 conj(S1)); elements 0 and 2 are the same and      *)
(* elements 3 and 5 are the same.                                           *)
C25_MuellerElements ==
    Muellered
    => /\ Len(agg_out) = Len(agg_in.m)
       /\ \A i \in 1..Len(agg_in.m) :
             /\ Len(agg_out[i]) = Len(agg_in.lam)
             /\ \A j \in 1..Len(agg_in.lam) :
                   Len(agg_out[i][j]) = Len(agg_in.S1[1][1])
       /\ \A s \in Slots :
             LET z == agg_out[s[1]][s[2]][s[3]]
                 s1 == agg_in.S1[s[1]][s[2]][s[3]]
                 s2 == agg_in.S2[s[1]][s[2]][s[3]]
                 lam == agg_in.lam[s[2]]
                 m == agg_in.m[s[1]]
                 c == cmul(s2, conj(s1))
             IN  /\ Len(z) = 6
                 /\ TimesKWave(rmul(int(2), z[1]), abs2(s2) + abs2(s1), lam, m)
                 /\ TimesKWave(rmul(int(2), z[2]), abs2(s2) - abs2(s1), lam, m)
                 /\ TimesKWave(z[4], c[1], lam, m)
                 /\ TimesKWave(z[5], c[2], lam, m)
                 /\ z[1] = z[3] /\ z[4] = z[6]

C25_Witness ==
    /\ Muellered /\ agg_in.lam = <<1, 2>> /\ agg_in.m = <<2, 1>>
    /\ agg_in.S1[2][1] = <<<<2, 2>>, <<0, 0>>>>
    /\ agg_in.S2[2][1] = <<<<0, 0 - 4>>, <<2, 2>>>>
    /\ agg_out[2][1][1] = <<real(3, 1, 0 - 2), real(1, 1, 0 - 2), real(3, 1, 0 - 2),
                            real(0 - 2, 1, 0 - 2), real(0 - 2, 1, 0 - 2),
                            real(0 - 2, 1, 0 - 2)>>

(* C30: for every S1, S2 and every size, wavelength and angle the output Z  *)
(* of calculate_mueller_matrix has Z[0] >= 0, |Z[1]| <= Z[0] and Z[0]^2 =   *)
(* Z[1]^2 + Z[3]^2 + Z[4]^2.                                                *)
FullyPolarized(z) ==
    /\ rle(int(0), z[1])
    /\ rle(rabs(z[2]), z[1])
    /\ rsq(z[1]) = radd(radd(rsq(z[2]), rsq(z[4])), rsq(z[5]))
    /\ ~isnan(z[1])
C30_FullPolarization ==
    Muellered => \A s \in Slots : FullyPolarized(agg_out[s[1]][s[2]][s[3]])

(* C30 for grains that have a mass: with m > 0 the relations hold; with     *)
(* m = 0 the factor k_wave is inf and the elements are inf or nan.          *)
C30_FullPolarizationWithMass ==
    Muellered
    => \A s \in Slots :
          IF agg_in.m[s[1]] > 0 THEN FullyPolarized(agg_out[s[1]][s[2]][s[3]])
          ELSE agg_out[s[1]][s[2]][s[3]][1].d = 0

C30_Witness ==
    /\ Muellered /\ agg_in.lam = <<2>> /\ agg_in.m = <<1>>
    /\ agg_in.S1[1][1] = <<<<1, 1>>>> /\ agg_in.S2[1][1] = <<<<0, 0 - 2>>>>
    /\ agg_out[1][1][1][1] = real(3, 1, 0 - 2)
    /\ agg_out[1][1][1][2] = real(1, 1, 0 - 2)
    /\ FullyPolarized(agg_out[1][1][1])

----------------------------------------------------------------------------
(* The dielectric model: construction, queries, extension *)

Construct ==
    /\ phase = "new"
    /\ \E t \in TableVals :
        /\ self' = diel_const_init(Col(t, 1), Col(t, 2), Col(t, 3))
        /\ call' = [NoCall EXCEPT !.op = "diel_const"]
    /\ phase' = "diel" /\ raised' = "" /\ ret' = NoRet
    /\ UNCHANGED <<extensions, ext_raised>>
    /\ UNCHANGED <<sweepVars, mixVars, aggVars>>

ConstructScalar ==
    /\ phase = "new"
    /\ \E r \in RowVals :
        /\ self' = diel_const_init_scalar(r[1], r[2], r[3])
        /\ call' = [NoCall EXCEPT !.op = "diel_const_scalar", !.l = r[1]]
    /\ phase' = "diel" /\ raised' = "" /\ ret' = NoRet
    /\ UNCHANGED <<extensions, ext_raised>>
    /\ UNCHANGED <<sweepVars, mixVars, aggVars>>

(* np.loadtxt gives a file of one row as a vector, and data[:, 0] then       *)
(* raises IndexError: no object is made.                                    *)
ConstructFromLnkFile ==
    /\ phase = "new"
    /\ \E t \in TableVals :
        IF Len(t) < 2
        THEN /\ self' = self
             /\ phase' = "failed" /\ raised' = "IndexError"
        ELSE /\ self' = diel_from_lnk_file_init(Col(t, 1), Col(t, 2), Col(t, 3))
             /\ phase' = "diel" /\ raised' = ""
    /\ call' = [NoCall EXCEPT !.op = "diel_from_lnk_file"]
    /\ ret' = NoRet
    /\ UNCHANGED <<extensions, ext_raised>>
    /\ UNCHANGED <<sweepVars, mixVars, aggVars>>

(* diel_henning(species): the same reading of a file as diel_from_lnk_file. *)
ConstructHenning ==
    /\ phase = "new"
    /\ \E t \in TableVals :
        IF Len(t) < 2
        THEN /\ self' = self
             /\ phase' = "failed" /\ raised' = "IndexError"
        ELSE /\ self' = diel_henning_init(Col(t, 1), Col(t, 2), Col(t, 3))
             /\ phase' = "diel" /\ raised' = ""
    /\ call' = [NoCall EXCEPT !.op = "diel_henning"]
    /\ ret' = NoRet
    /\ UNCHANGED <<extensions, ext_raised>>
    /\ UNCHANGED <<sweepVars, mixVars, aggVars>>

ConstructVacuum ==
    /\ phase = "new"
    /\ self' = diel_vacuum_init
    /\ phase' = "vacuum" /\ raised' = ""
    /\ call' = [NoCall EXCEPT !.op = "diel_vacuum"]
    /\ ret' = NoRet
    /\ UNCHANGED <<extensions, ext_raised>>
    /\ UNCHANGED <<sweepVars, mixVars, aggVars>>

QueryVacuum ==
    /\ phase = "vacuum"
    /\ \E l \in QueryVals :
       \E r \in {diel_vacuum_nk(l)} :
            /\ call' = [NoCall EXCEPT !.op = "diel_vacuum.nk", !.l = l]
            /\ raised' = r.raised
            /\ ret' = [n |-> r.n, k |-> r.k]
    /\ phase' = "queried"
    /\ UNCHANGED <<self, extensions, ext_raised>>
    /\ UNCHANGED <<sweepVars, mixVars, aggVars>>

(* nk reads the object and changes nothing, so the model takes one query,    *)
(* after the extends: every object and every query on it is still reached.  *)
Query ==
    /\ phase = "diel"
    /\ \E l \in QueryVals :
       \E r \in {nk(self, l)} :
            /\ call' = [NoCall EXCEPT !.op = "nk", !.l = l]
            /\ raised' = r.raised
            /\ ret' = [n |-> r.n, k |-> r.k]
    /\ phase' = "queried"
    /\ UNCHANGED <<self, extensions, ext_raised>>
    /\ UNCHANGED <<sweepVars, mixVars, aggVars>>

ExtendUp ==
    /\ phase = "diel" /\ extensions < MaxExt
    /\ \E kind \in KindVals, lmax \in UpVals, num \in 1..MaxNum :
       \E lmin \in Anchors(kind), fit \in Fits(kind) :
       \E r \in {extrapolate_constants_up(self, lmin, lmax, num, kind, fit)} :
            /\ self' = r.obj
            /\ raised' = r.raised
            /\ ext_raised' = (ext_raised \/ r.raised # "")
            /\ call' = [NoCall EXCEPT !.op = "extrapolate_constants_up",
                            !.lmin = lmin, !.lmax = lmax, !.num = num, !.kind = kind]
    /\ extensions' = extensions + 1
    /\ ret' = NoRet
    /\ UNCHANGED phase
    /\ UNCHANGED <<sweepVars, mixVars, aggVars>>

ExtendDown ==
    /\ phase = "diel" /\ extensions < MaxExt
    /\ \E kind \in KindVals, lmin \in DownVals, num \in 1..MaxNum :
       \E lmax \in Anchors(kind), fit \in Fits(kind) :
       \E r \in {extrapolate_constants_down(self, lmin, lmax, num, kind, fit)} :
            /\ self' = r.obj
            /\ raised' = r.raised
            /\ ext_raised' = (ext_raised \/ r.raised # "")
            /\ call' = [NoCall EXCEPT !.op = "extrapolate_constants_down",
                            !.lmin = lmin, !.lmax = lmax, !.num = num, !.kind = kind]
    /\ extensions' = extensions + 1
    /\ ret' = NoRet
    /\ UNCHANGED phase
    /\ UNCHANGED <<sweepVars, mixVars, aggVars>>

InitDiel ==
    /\ phase = "new"
    /\ self = diel_const_class
    /\ call = NoCall
    /\ raised = ""
    /\ ret = NoRet
    /\ extensions = 0
    /\ ext_raised = FALSE
    /\ SweepIdle
    /\ MixIdle
    /\ AggIdle

NextDiel ==
    \/ Construct
    \/ ConstructScalar
    \/ ConstructFromLnkFile
    \/ ConstructHenning
    \/ ConstructVacuum
    \/ Query
    \/ QueryVacuum
    \/ ExtendUp
    \/ ExtendDown

SpecDiel == InitDiel /\ [][NextDiel]_vars

----------------------------------------------------------------------------
(* Properties of the dielectric model *)

IsExtend(op) == op \in {"extrapolate_constants_up", "extrapolate_constants_down"}

(* C1: nk raises for every query wavelength below the stored minimum or     *)
(* above the stored maximum and returns nothing then (no clamped value);    *)
(* for every wavelength in [min, max], bounds included, it does not raise.  *)
C1_OutOfRangeRaises ==
    call.op = "nk" =>
        /\ (call.l < self._lmin \/ call.l > self._lmax) =>
                raised = "NameError" /\ ret = NoRet
        /\ (self._lmin <= call.l /\ call.l <= self._lmax) => raised = ""

C1_Witness ==
    /\ call.op = "nk" /\ raised = "NameError"
    /\ call.l > self._lmax /\ self._lmin < self._lmax /\ Len(self._l) > 2

(* C11: an in-range query of a spectrum flagged as holding an n <= 0 whose   *)
(* linear interpolation of n at the query is negative returns that linear   *)
(* interpolation as n; every other in-range query returns as n the          *)
(* interpolation of log10(n) against log10(wavelength), raised to 10; k is  *)
(* always interpolated in log space.                                        *)
C11_InterpolationBranches ==
    (call.op = "nk" /\ raised = "") =>
        LET lin == interp_lin(call.l, self._l, self._n)
        IN  /\ (self._has_negative_n /\ lin # NaN /\ lin < 0) => ret.n = lin
            /\ ~(self._has_negative_n /\ lin # NaN /\ lin < 0)
                  => ret.n = interp_log(call.l, self._l, self._n)
            /\ ret.k = interp_log(call.l, self._l, self._k)

C11_Witness ==
    /\ call.op = "nk" /\ raised = ""
    /\ self._has_negative_n /\ self._l = <<0, 12>> /\ self._n = <<0 - 1, 2>>
    /\ call.l = 6 /\ ret.n = 0 - 1 /\ ret.k = 1

(* C12: a query at a tabulated wavelength, the nodes with n <= 0 included,  *)
(* does not raise and returns the n and k tabulated at that node.           *)
C12_ExactAtNodes ==
    call.op = "nk" =>
        \A i \in DOMAIN self._l :
            self._l[i] = call.l =>
                raised = "" /\ ret.n = self._n[i] /\ ret.k = self._k[i]

BoundsAreExtremes(obj) == obj._lmin = SeqMin(obj._l) /\ obj._lmax = SeqMax(obj._l)

C9_SpectrumInvariant ==
    (phase \in {"diel", "queried"} /\ ~ext_raised) =>
        /\ StrictlyIncreasing(self._l)
        /\ Len(self._l) >= 2
        /\ Len(self._n) = Len(self._l) /\ Len(self._k) = Len(self._l)
        /\ self._lmin = self._l[1] /\ self._lmax = self._l[Len(self._l)]

(* C10: a table whose wavelengths decrease somewhere or that holds a k <= 0  *)
(* is rejected by the constructor: an object that was built has ascending   *)
(* wavelengths and positive k.                                              *)
C10_InvalidTableRejected ==
    (call.op \in {"diel_const", "diel_from_lnk_file"} /\ raised = "") =>
        /\ Ascending(self._l)
        /\ \A i \in DOMAIN self._k : self._k[i] > 0

(* C28: extend is all-or-nothing: whenever an extend call raises (an        *)
(* unknown kind, or a spectrum whose material_str is unset, as one built by *)
(* the diel_const constructor is), the spectrum's wavelengths, n, k,        *)
(* bounds, extrapol flag and material_str are what they were before.        *)
C28_ExtendAllOrNothing ==
    [][(IsExtend(call'.op) /\ raised' # "") => self' = self]_vars

(* C29: for every dielectric model however created (the base constructor,   *)
(* a material file loader, vacuum) and after any sequence of extends,       *)
(* _has_negative_n is true exactly when some tabulated n is <= 0, so that   *)
(* nk never interpolates the logarithm of n through a sample with n <= 0    *)
(* without the check of the linear estimate.                                *)
C29_FlagIffNonPositiveN ==
    phase \in {"diel", "vacuum", "queried"}
    => (self._has_negative_n <=> \E i \in DOMAIN self._n : self._n[i] <= 0)

====
